---- MODULE Spec2Model ----
(***************************************************************************)
(* Channel runtime of the MirthBR backend: ChannelManager registry,        *)
(* per-channel supervisor / listener / processor tasks, the message store  *)
(* status lifecycle, the retry worker, retry_message, recovery at boot,    *)
(* the HTTP ingress handler and graceful shutdown.                         *)
(*                                                                         *)
(* Granularity: one action per completed .await of a task, together with   *)
(* the synchronous code that follows it up to the next .await.  The calls  *)
(* start_channel, stop_channel, delete_channel and inject_message are made *)
(* one at a time and each is one action.                                   *)
(***************************************************************************)
EXTENDS Integers, Sequences, FiniteSets, TLC

\* ------------------------------------------------------------------ bounds
MaxInst == 2        \* supervisor instances ever spawned
MaxMsgs == 2        \* message ids ever generated (Uuid::new_v4)
MaxReq == 1         \* HTTP ingress requests ever made
MaxRetryCalls == 2  \* calls of retry_message ever made
MaxBoots == 1       \* process restarts after a kill
MaxInject == 1      \* calls of inject_message ever made
QueueCap == 1       \* mpsc::channel capacity of the model (100 in the code)
MaxTextLen == 2     \* characters of a text put in an MLLP frame
MaxFields == 11     \* fields of the first segment of a received HL7 message
MaxPieces == 2      \* pieces a filename pattern is made of
MaxJunk == 4        \* bytes received before a well-formed MLLP frame

ChannelIds == {"c1"}
Bodies == {"hello", "DROP"}

NoInst == 0
NoReq == 0

\* ------------------------------------------------------- channel configs
\* storage/models.rs: Channel { source, processors, destinations,
\* error_destination }.  Processor payloads are the scripts of the spec's
\* scenarios S1, S3, S4 and a mapper.
ProcUpper == [kind |-> "Lua", name |-> "Uppercaser", code |-> "upper"]
ProcRaise == [kind |-> "Lua", name |-> "Raiser", code |-> "raise"]
ProcFilter == [kind |-> "Filter", name |-> "NotDrop", code |-> "notDROP"]
ProcMapper == [kind |-> "Mapper", name |-> "Map", code |-> "map"]

HelloChannel ==
    [source |-> "Http", port |-> 8090, processors |-> <<ProcUpper>>,
     destinations |-> <<"File">>, error_destination |-> "None",
     max_retries |-> 3]
FilterChannel ==
    [source |-> "Test", port |-> 0, processors |-> <<ProcFilter, ProcUpper>>,
     destinations |-> <<"File">>, error_destination |-> "None",
     max_retries |-> 3]
RaiseChannel ==
    [source |-> "Http", port |-> 8090, processors |-> <<ProcRaise>>,
     destinations |-> <<"File">>, error_destination |-> "File",
     max_retries |-> 3]
\* the same channel with "max_retries": 0
NoRetryChannel == [RaiseChannel EXCEPT !.max_retries = 0]
MapperChannel ==
    [source |-> "Http", port |-> 8090, processors |-> <<ProcMapper>>,
     destinations |-> <<"File">>, error_destination |-> "None",
     max_retries |-> 3]
GateChannel ==
    [source |-> "Http", port |-> 8090, processors |-> <<ProcFilter, ProcUpper>>,
     destinations |-> <<"File">>, error_destination |-> "File",
     max_retries |-> 3]
UpperRaiseChannel ==
    [source |-> "Http", port |-> 8090, processors |-> <<ProcUpper, ProcRaise>>,
     destinations |-> <<"File">>, error_destination |-> "File",
     max_retries |-> 3]
RaiseTcpChannel ==
    [source |-> "Http", port |-> 8090, processors |-> <<ProcRaise>>,
     destinations |-> <<"File">>, error_destination |-> "Tcp",
     max_retries |-> 3]
TcpChannel ==
    [source |-> "Tcp", port |-> 6661, processors |-> <<>>,
     destinations |-> <<"Tcp">>, error_destination |-> "None",
     max_retries |-> 3]
FanOutChannel ==
    [source |-> "Http", port |-> 8090, processors |-> <<ProcUpper>>,
     destinations |-> <<"File", "Tcp">>, error_destination |-> "File",
     max_retries |-> 3]

\* ------------------------------------------------------------ processors
\* "return msg.content:upper()"
Upper(content) == IF content = "hello" THEN "HELLO" ELSE content

\* serde_json::from_str(&msg.content) succeeds
IsJson(content) == content \in {"{}"}

\* LuaProcessor::process for the two scripts of the model
LuaProcess(code, content) ==
    IF code = "upper"
    THEN [ok |-> TRUE, content |-> Upper(content), err |-> ""]
    ELSE [ok |-> FALSE, content |-> content,
          err |-> "Lua execution error: raise"]

\* MapperProcessor::process
MapperProcess(content) ==
    IF IsJson(content)
    THEN [ok |-> TRUE, content |-> content, err |-> ""]
    ELSE [ok |-> FALSE, content |-> content,
          err |-> "Mapper requires JSON input"]

\* FilterProcessor::process for the condition  return msg.content ~= "DROP"
FilterProcess(content) == content # "DROP"

\* The processor chain of the processor loop, run synchronously from
\* processor number i on content c.  Result: what the loop does next.
\* content is msg.content as the processors that ran successfully left it
\* (Ok(new_msg) => msg = new_msg).
\*   out = "pass"     every processor ran
\*   out = "filtered" a filter returned false (drop)
\*   out = "error"    a processor failed; replied says whether the failing
\*                    arm itself sent Err(error_msg) on the reply handle
RECURSIVE RunChain(_, _, _)
RunChain(procs, i, c) ==
    IF i > Len(procs)
    THEN [out |-> "pass", content |-> c, err |-> "", replied |-> FALSE]
    ELSE LET p == procs[i] IN
         CASE p.kind = "Lua" ->
                LET r == LuaProcess(p.code, c) IN
                IF r.ok THEN RunChain(procs, i + 1, r.content)
                ELSE [out |-> "error", content |-> c,
                      err |-> "Processor " \o p.name \o " failed: "
                                  \o r.err,
                      replied |-> TRUE]
           [] p.kind = "Mapper" ->
                LET r == MapperProcess(c) IN
                IF r.ok THEN RunChain(procs, i + 1, r.content)
                ELSE [out |-> "error", content |-> c,
                      err |-> "Mapper Processor failed: " \o r.err,
                      replied |-> FALSE]
           [] p.kind = "Filter" ->
                IF FilterProcess(c) THEN RunChain(procs, i + 1, c)
                ELSE [out |-> "filtered", content |-> c, err |-> "FILTERED",
                      replied |-> FALSE]
           [] OTHER -> RunChain(procs, i + 1, c)

\* DeduplicationStore::hash_content (64-bit hash, rendered in hex)
hash_content(content) == <<"h", content>>

\* ------------------------------------------------------------------ MLLP
\* listeners/mllp.rs.  A text is the sequence of its UTF-8 bytes.
SB == 11
EB == 28
CR == 13

\* the characters of the model's texts: "A", carriage return, "e" acute
Chars == {<<65>>, <<CR>>, <<195, 169>>}

\* the texts of at most n characters
RECURSIVE Texts(_)
Texts(n) ==
    IF n = 0 THEN {<<>>}
    ELSE LET T == Texts(n - 1) IN T \cup {t \o c : t \in T, c \in Chars}

\* String::from_utf8(bytes).is_ok(), for sequences of one- and two-byte forms
RECURSIVE from_utf8_ok(_)
from_utf8_ok(b) ==
    IF b = <<>> THEN TRUE
    ELSE IF b[1] < 128 THEN from_utf8_ok(Tail(b))
    ELSE IF b[1] \in 194..223 /\ Len(b) >= 2 /\ b[2] \in 128..191
    THEN from_utf8_ok(Tail(Tail(b)))
    ELSE FALSE

\* format!("\x0B{}\x1C\x0D", text)
Frame(text) == <<SB>> \o text \o <<EB, CR>>

\* MllpFrameAccumulator::new
NewAcc == [state |-> "WaitingStart", buffer |-> <<>>]

\* an accumulator that never gives a partial frame up: while accumulating
\* an SB is one more byte of the text, and after an EB a byte other than CR
\* is appended and the accumulating goes on
FeedByteKeepPartial(a, byte) ==
    CASE a.state = "WaitingStart" ->
           [acc |-> IF byte = SB
                    THEN [state |-> "Accumulating", buffer |-> <<>>] ELSE a,
            msgs |-> <<>>]
      [] a.state = "Accumulating" ->
           [acc |-> IF byte = EB THEN [a EXCEPT !.state = "Complete"]
                    ELSE [a EXCEPT !.buffer = Append(@, byte)],
            msgs |-> <<>>]
      [] a.state = "Complete" ->
           IF byte = CR
           THEN [acc |-> NewAcc,
                 msgs |-> IF from_utf8_ok(a.buffer) THEN <<a.buffer>>
                          ELSE <<>>]
           ELSE [acc |-> [state |-> "Accumulating",
                          buffer |-> Append(a.buffer, byte)],
                 msgs |-> <<>>]
      [] OTHER ->
           [acc |-> IF byte = SB
                    THEN [state |-> "Accumulating", buffer |-> <<>>] ELSE a,
            msgs |-> <<>>]

\* one iteration of the loop of feed: the accumulator after the byte, and
\* the message pushed, if any
FeedByte(a, byte) ==
    CASE a.state = "WaitingStart" ->
           [acc |-> IF byte = SB
                    THEN [state |-> "Accumulating", buffer |-> <<>>] ELSE a,
            msgs |-> <<>>]
      [] a.state = "Accumulating" ->
           [acc |-> IF byte = SB THEN [a EXCEPT !.buffer = <<>>]
                    ELSE IF byte = EB THEN [a EXCEPT !.state = "Complete"]
                    ELSE [a EXCEPT !.buffer = Append(@, byte)],
            msgs |-> <<>>]
      [] a.state = "Complete" ->
           IF byte = CR
           THEN [acc |-> NewAcc,
                 msgs |-> IF from_utf8_ok(a.buffer) THEN <<a.buffer>>
                          ELSE <<>>]
           ELSE [acc |-> [state |-> IF byte = SB THEN "Accumulating"
                                    ELSE "WaitingStart",
                          buffer |-> <<>>],
                 msgs |-> <<>>]
      [] OTHER ->
           [acc |-> IF byte = SB
                    THEN [state |-> "Accumulating", buffer |-> <<>>] ELSE a,
            msgs |-> <<>>]

\* the loop of feed from byte number i on
RECURSIVE FeedFrom(_, _, _, _)
FeedFrom(a, data, i, msgs) ==
    IF i > Len(data) THEN [acc |-> a, messages |-> msgs]
    ELSE LET r == FeedByte(a, data[i])
         IN FeedFrom(r.acc, data, i + 1, msgs \o r.msgs)

\* a feed that starts every call from a new accumulator
feedFromNew(a, data) == FeedFrom(NewAcc, data, 1, <<>>)

\* MllpFrameAccumulator::feed
feed(a, data) == FeedFrom(a, data, 1, <<>>)

\* the string literals of generate_ack and of the model's HL7 messages, as
\* bytes: "|", "MSH", "^~\&", "ACK", "P", "2.3", "MSA", "AA", "Unknown",
\* "PID", "ADT", the apps "HIS", "LAB", the facilities "H1", "S1", the
\* control ids "M1", "M2", the acknowledgment codes "CA", "AE", "CE", "AR",
\* "CR"; now and uuid stand for the formatted current time and the new Uuid
Lit ==
    [pipe |-> <<124>>, MSH |-> <<77, 83, 72>>, enc |-> <<94, 126, 92, 38>>,
     ACK |-> <<65, 67, 75>>, P |-> <<80>>, ver |-> <<50, 46, 51>>,
     MSA |-> <<77, 83, 65>>, AA |-> <<65, 65>>, CA |-> <<67, 65>>,
     AE |-> <<65, 69>>, CE |-> <<67, 69>>, AR |-> <<65, 82>>,
     CR |-> <<67, 82>>,
     Unknown |-> <<85, 110, 107, 110, 111, 119, 110>>,
     PID |-> <<80, 73, 68>>, ADT |-> <<65, 68, 84>>,
     HIS |-> <<72, 73, 83>>, LAB |-> <<76, 65, 66>>,
     H1 |-> <<72, 49>>, S1 |-> <<83, 49>>,
     M1 |-> <<77, 49>>, M2 |-> <<77, 50>>,
     now |-> <<50, 48, 50, 54>>, uuid |-> <<117, 49>>,
     \* destinations/file.rs: "/", "\", NUL, line feed, "a", "..", "${id}",
     \* "${channel}", "${timestamp}", "${date}", "message_", ".txt", the
     \* directories "/out" and "../out", the working directory "/w"
     slash |-> <<47>>, bslash |-> <<92>>, nul |-> <<0>>, lf |-> <<10>>,
     a |-> <<97>>, dotdot |-> <<46, 46>>,
     id_var |-> <<36, 123, 105, 100, 125>>,
     channel_var |-> <<36, 123, 99, 104, 97, 110, 110, 101, 108, 125>>,
     timestamp_var |->
        <<36, 123, 116, 105, 109, 101, 115, 116, 97, 109, 112, 125>>,
     date_var |-> <<36, 123, 100, 97, 116, 101, 125>>,
     message_ |-> <<109, 101, 115, 115, 97, 103, 101, 95>>,
     txt |-> <<46, 116, 120, 116>>,
     out |-> <<47, 111, 117, 116>>, up_out |-> <<46, 46, 47, 111, 117, 116>>,
     cwd |-> <<47, 119>>]

\* str::split(sep): the pieces of text between the occurrences of byte sep
RECURSIVE split(_, _)
split(text, sep) ==
    IF \A i \in DOMAIN text : text[i] # sep THEN <<text>>
    ELSE LET i == CHOOSE i \in DOMAIN text :
                     text[i] = sep /\ \A j \in 1..(i - 1) : text[j] # sep
         IN <<SubSeq(text, 1, i - 1)>>
               \o split(SubSeq(text, i + 1, Len(text)), sep)

\* the pieces joined with the bytes sep between them, as format! does
RECURSIVE Join(_, _)
Join(pieces, sep) ==
    IF pieces = <<>> THEN <<>>
    ELSE IF Len(pieces) = 1 THEN pieces[1]
    ELSE pieces[1] \o sep \o Join(Tail(pieces), sep)

\* generate_ack
generate_ack(hl7_msg) ==
    LET segments == split(hl7_msg, CR)
        msh_fields == split(segments[1], Lit.pipe[1])
    IN IF Len(msh_fields) < 10
       THEN Frame(Join(<<Lit.MSA, Lit.AA, Lit.Unknown, Lit.now>>, Lit.pipe))
       ELSE LET \* msh_fields.get(i).unwrap_or(&""), i counted from 0
                get(i) == IF i + 1 <= Len(msh_fields) THEN msh_fields[i + 1]
                          ELSE <<>>
                sending_app == get(2)
                sending_fac == get(3)
                receiving_app == get(4)
                receiving_fac == get(5)
                msg_control_id == get(9)
                ack_msh == Join(<<Lit.MSH, Lit.enc, receiving_app,
                                  receiving_fac, sending_app, sending_fac,
                                  Lit.now, <<>>, Lit.ACK, Lit.uuid, Lit.P,
                                  Lit.ver>>, Lit.pipe)
                ack_msa == Join(<<Lit.MSA, Lit.AA, msg_control_id>>, Lit.pipe)
            IN Frame(ack_msh \o <<CR>> \o ack_msa)

\* str::contains(pat)
contains(text, pat) ==
    \E i \in 0..(Len(text) - Len(pat)) :
       SubSeq(text, i + 1, i + Len(pat)) = pat

\* TcpSender::send from the read of the response on: ev is what the read
\* returned ("data", "closed" for 0 bytes, "error", "timeout"), response
\* the bytes read
TcpSenderSend(ev, response) ==
    LET has(code) == contains(response, Lit.pipe \o code \o Lit.pipe) IN
    IF ev = "closed"
    THEN [ok |-> FALSE, err |-> "Connection closed by remote host before ACK"]
    ELSE IF ev = "error" THEN [ok |-> FALSE, err |-> "Failed to read ACK"]
    ELSE IF ev = "timeout"
    THEN [ok |-> FALSE, err |-> "Timeout waiting for ACK"]
    ELSE IF has(Lit.AA) \/ has(Lit.CA) THEN [ok |-> TRUE, err |-> ""]
    ELSE IF has(Lit.AE) \/ has(Lit.CE) \/ has(Lit.AR) \/ has(Lit.CR)
    THEN [ok |-> FALSE, err |-> "Received NACK/Reject from remote"]
    ELSE IF contains(response, Lit.MSA \o Lit.pipe)
    THEN [ok |-> TRUE, err |-> ""]
    ELSE [ok |-> FALSE, err |-> "Invalid ACK response"]

\* ------------------------------------------------------- file destination
MAX_FILENAME_LENGTH == 255
MAX_PATH_LENGTH == 4096

\* a sanitize_filename that removes nothing
sanitizeNothing(filename) == filename

\* FileWriter::sanitize_filename
sanitize_filename(filename) ==
    LET kept == SelectSeq(filename,
                   LAMBDA c : /\ c \notin {47, 92, 0}
                              /\ ~(c < 32 \/ c \in 127..159))
    IN IF Len(kept) > MAX_FILENAME_LENGTH
       THEN SubSeq(kept, 1, MAX_FILENAME_LENGTH) ELSE kept

\* FileWriter::validate_path: an error, or the components of the path
\* (below the root) that the file is opened at
validate_path(base_dir, filename) ==
    IF Len(base_dir) + Len(filename) > MAX_PATH_LENGTH
    THEN [ok |-> FALSE, path |-> <<>>]
    ELSE LET base == IF base_dir = <<>> \/ base_dir[1] # 47
                     THEN Lit.cwd \o Lit.slash \o base_dir ELSE base_dir
             full_path == base \o Lit.slash \o sanitize_filename(filename)
             \* Path::components: the pieces between separators, without
             \* the empty ones and the "." ones
             normalized == SelectSeq(split(full_path, 47),
                              LAMBDA c : c \notin {<<>>, <<46>>, Lit.dotdot})
         IN IF contains(Join(normalized, Lit.slash), Lit.dotdot)
            THEN [ok |-> FALSE, path |-> <<>>]
            ELSE [ok |-> TRUE, path |-> normalized]

\* FileWriter::build_filename; has says whether a filename pattern is set
build_filename(has, pattern, id, channel_name) ==
    LET RECURSIVE replace(_, _, _)
        \* str::replace(from, to)
        replace(t, from, to) ==
            IF Len(t) < Len(from) THEN t
            ELSE IF SubSeq(t, 1, Len(from)) = from
            THEN to \o replace(SubSeq(t, Len(from) + 1, Len(t)), from, to)
            ELSE <<t[1]>> \o replace(Tail(t), from, to)
    IN IF has
       THEN replace(replace(replace(replace(pattern,
                Lit.timestamp_var, Lit.now), Lit.id_var, id),
                Lit.date_var, Lit.now), Lit.channel_var, channel_name)
       ELSE Lit.message_ \o id \o Lit.txt

\* ------------------------------------------------------------- variables
VARIABLES
    channels,   \* ChannelManager.channels : id -> JoinHandle (instance no.)
    senders,    \* ChannelManager.senders  : id -> Sender (instance no.)
    inst,       \* the supervisor instances spawned so far
    nInst,      \* number of instances spawned
    store,      \* messages table: id -> row
    nMsgs,      \* number of message ids generated
    dedup,      \* processed_ids table: set of <<channel_id, message_hash>>
    chanStore,  \* channels table: id -> <<config>>, or <<>> if absent
    req,        \* HTTP ingress requests: position and response
    rtx,        \* one-shot reply channels, one per request
    inj,        \* the last inject_message call: channel and result
    rw,         \* retry worker: position and the rows it fetched
    rm,         \* retry_message call in progress
    nRetryCalls,
    shut,       \* shutdown_all: position and handles still to join
    boots,      \* number of process restarts
    out,        \* destination sends completed so far, in order
    recov,      \* send tasks spawned by recover_pending_messages
    hist,       \* per channel id: the manager calls completed, in order
    conn,       \* the connection a Tcp source is serving (handle_connection)
    call        \* a function applied on its own: its input, state and result

vars == <<channels, senders, inst, nInst, store, nMsgs, dedup, chanStore,
          req, rtx, inj, rw, rm, nRetryCalls, shut, boots, out, recov,
          hist, conn, call>>

InstIds == 1..MaxInst
MsgIds == 1..MaxMsgs
ReqIds == 1..MaxReq

NoMsg == [id |-> 0, content |-> "", origin |-> "", rtx |-> NoReq]
NoRow == [status |-> "NONE", retry_count |-> 0, channel_id |-> "",
          content |-> "", error_message |-> "", age |-> 0]
NoInstRec ==
    [ch |-> "", cfg |-> HelloChannel, sup |-> "none", sig |-> FALSE,
     lst |-> "none", srv |-> FALSE, prc |-> "none", queue |-> <<>>,
     cur |-> NoMsg, pc |-> "recv", idx |-> 0, err |-> "",
     \* mc: where the manager call that creates the instance (start_channel)
     \* or that holds its removed handle (stop_channel) stands, when the
     \* steps of the call are taken one by one
     mc |-> "none"]
NoRtx == [st |-> "none", ok |-> FALSE, text |-> "", path |-> "none",
          err |-> ""]
NoReqRec == [pc |-> "idle", id |-> 0, status |-> 0, body |-> ""]
NoRm == [pc |-> "idle", id |-> 0, rec |-> NoRow, k |-> NoInst,
         result |-> "none"]

\* no connection accepted; no function applied on its own
NoConn == [k |-> NoInst, pc |-> "none"]
NoCall == [fn |-> "none"]

\* the program after construction
InitProgram ==
    /\ channels = [c \in ChannelIds |-> NoInst]
    /\ senders = [c \in ChannelIds |-> NoInst]
    /\ inst = [k \in InstIds |-> NoInstRec]
    /\ nInst = 0
    /\ store = [m \in MsgIds |-> NoRow]
    /\ nMsgs = 0
    /\ dedup = {}
    /\ chanStore = [c \in ChannelIds |-> <<>>]
    /\ req = [r \in ReqIds |-> NoReqRec]
    /\ rtx = [r \in ReqIds |-> NoRtx]
    /\ inj = [n |-> 0, ch |-> "", result |-> "none", id |-> 0]
    /\ rw = [pc |-> "sleep", rows |-> <<>>, k |-> NoInst]
    /\ rm = NoRm
    /\ nRetryCalls = 0
    /\ shut = [pc |-> "up", handles |-> {}]
    /\ boots = 0
    /\ out = <<>>
    /\ recov = {}
    /\ hist = [c \in ChannelIds |-> <<>>]
    /\ conn = NoConn

Init == InitProgram /\ call = NoCall

\* ------------------------------------------------------------ primitives
\* the process is running / the admin API is being served
Alive == shut.pc \in {"booting", "up", "joining", "returned"}
ApiUp == shut.pc \in {"up", "joining"}

\* the reply handles carried by a set of dropped messages are dropped with
\* them: a oneshot::Sender dropped before send() closes the channel
DropReplies(f, msgs) ==
    [r \in ReqIds |->
        IF f[r].st = "open" /\ \E i \in DOMAIN msgs : msgs[i].rtx = r
        THEN [f[r] EXCEPT !.st = "dropped"]
        ELSE f[r]]

\* if let Some(tx) = tx_opt.take() { let _ = tx.send(result); }
Resolve(f, r, ok, text) ==
    IF r # NoReq /\ f[r].st = "open"
    THEN [f EXCEPT ![r].st = "sent", ![r].ok = ok, ![r].text = text]
    ELSE f

\* a message leaves the processor loop's scope (continue / abort): an
\* unresolved reply handle it still carries is dropped
EndOfScope(f, msg, path, err) ==
    IF msg.rtx = NoReq THEN f
    ELSE LET g == [f EXCEPT ![msg.rtx].path = path, ![msg.rtx].err = err]
         IN DropReplies(g, <<msg>>)

\* the receiver half of instance k's queue still exists
ReceiverAlive(k) ==
    \/ inst[k].sup = "spawned"
    \/ inst[k].prc = "running"

\* some Sender of instance k's queue still exists: the manager's map, the
\* listener future (Http, Tcp), the detached axum server task, the task of
\* a connection that a Tcp listener accepted
SenderAlive(k) ==
    \/ conn.k = k /\ conn.pc \notin {"none", "closed"}
    \/ senders[inst[k].ch] = k
    \/ inst[k].lst \in {"spawned", "running"} /\ inst[k].cfg.source # "Test"
    \/ inst[k].srv
    \/ rw.pc \in {"update", "send"} /\ rw.k = k
    \/ rm.pc = "send" /\ rm.k = k
    \/ \E t \in recov : t.k = k

PortBusy(port) == \E j \in InstIds : inst[j].srv /\ inst[j].cfg.port = port

\* JoinHandle::abort on a supervisor task.  A task that was never polled
\* drops its captured futures (listener_fut, processor_fut with rx); a task
\* waiting in select! drops the JoinHandles of its two subtasks, which
\* detaches them: they keep running.
AbortSupervisor(r) ==
    CASE r.sup = "spawned" ->
           [r EXCEPT !.sup = "aborted", !.prc = "aborted", !.queue = <<>>]
      [] r.sup \in {"running", "draining"} -> [r EXCEPT !.sup = "aborted"]
      [] OTHER -> r

\* the last two manager calls completed on channel c
Push(h, e) == IF Len(h) < 2 THEN Append(h, e) ELSE <<h[2], e>>

\* ---------------------------------------------------------- ChannelManager
\* start_channel without lines 128-135: the previous handle is overwritten
\* in the map and never aborted
StartChannelOnNoAbort(c, cfg) ==
    LET new == nInst + 1
    IN  /\ nInst < MaxInst
        /\ chanStore' = [chanStore EXCEPT ![c] = <<cfg>>]
        /\ inst' = [inst EXCEPT ![new] =
                        [NoInstRec EXCEPT !.ch = c, !.cfg = cfg,
                                          !.sup = "spawned"]]
        /\ rtx' = rtx
        /\ senders' = [senders EXCEPT ![c] = new]
        /\ channels' = [channels EXCEPT ![c] = new]
        /\ nInst' = new

\* start_channel: save the config, abort and remove a previous handle,
\* remove the old sender, create the queue, register the new sender, spawn
\* the supervisor, store its handle.
StartChannelOn(c, cfg) ==
    LET old == channels[c]
        new == nInst + 1
        aborted == IF old = NoInst THEN inst
                   ELSE [inst EXCEPT ![old] = AbortSupervisor(inst[old])]
    IN  /\ nInst < MaxInst
        /\ chanStore' = [chanStore EXCEPT ![c] = <<cfg>>]
        /\ inst' = [aborted EXCEPT ![new] =
                        [NoInstRec EXCEPT !.ch = c, !.cfg = cfg,
                                          !.sup = "spawned"]]
        /\ rtx' = IF old # NoInst /\ inst[old].sup = "spawned"
                  THEN DropReplies(rtx, inst[old].queue) ELSE rtx
        /\ senders' = [senders EXCEPT ![c] = new]
        /\ channels' = [channels EXCEPT ![c] = new]
        /\ nInst' = new

\* POST /api/channels (create_channel): deploy, or redeploy, channel c
StartChannel(c, cfg) ==
    /\ ApiUp
    /\ StartChannelOn(c, cfg)
    /\ hist' = [hist EXCEPT ![c] = Push(@, <<"start", nInst + 1>>)]
    /\ UNCHANGED <<conn, call, store, nMsgs, dedup, req, inj, rw, rm, nRetryCalls, shut,
                   boots, out, recov>>

\* stop_channel without line 99: the sender stays in the map
StopChannelOnKeepSender(c) ==
    LET old == channels[c] IN
    IF old # NoInst
    THEN /\ channels' = [channels EXCEPT ![c] = NoInst]
         /\ inst' = [inst EXCEPT ![old] = AbortSupervisor(inst[old])]
         /\ rtx' = IF inst[old].sup = "spawned"
                   THEN DropReplies(rtx, inst[old].queue) ELSE rtx
         /\ senders' = senders
    ELSE UNCHANGED <<channels, inst, rtx, senders>>

\* stop_channel: remove the handle; if there was one, abort it and remove
\* the sender (Ok), else Err("not running") and nothing else.
StopChannelOn(c) ==
    LET old == channels[c] IN
    IF old # NoInst
    THEN /\ channels' = [channels EXCEPT ![c] = NoInst]
         /\ inst' = [inst EXCEPT ![old] = AbortSupervisor(inst[old])]
         /\ rtx' = IF inst[old].sup = "spawned"
                   THEN DropReplies(rtx, inst[old].queue) ELSE rtx
         /\ senders' = [senders EXCEPT ![c] = NoInst]
    ELSE UNCHANGED <<channels, inst, rtx, senders>>

StopChannel(c) ==
    /\ ApiUp
    /\ StopChannelOn(c)
    /\ hist' = [hist EXCEPT ![c] =
                   Push(@, <<IF channels[c] # NoInst THEN "stop"
                             ELSE "stop_err", 0>>)]
    /\ UNCHANGED <<conn, call, nInst, store, nMsgs, dedup, chanStore, req, inj, rw, rm,
                   nRetryCalls, shut, boots, out, recov>>

\* ------------------------------------- manager calls, one lock at a time
\* start_channel up to line 135: the config is saved; under the lock of the
\* handle map the handle of c, if any, is removed and aborted
StartRemoveHandle(c, cfg) ==
    LET old == channels[c]
        new == nInst + 1
        aborted == IF old = NoInst THEN inst
                   ELSE [inst EXCEPT ![old] = AbortSupervisor(inst[old])]
    IN  /\ ApiUp
        /\ nInst < MaxInst
        /\ chanStore' = [chanStore EXCEPT ![c] = <<cfg>>]
        /\ channels' = [channels EXCEPT ![c] = NoInst]
        /\ inst' = [aborted EXCEPT ![new] =
                        [NoInstRec EXCEPT !.ch = c, !.cfg = cfg,
                                          !.mc = "remove_sender"]]
        /\ rtx' = IF old # NoInst /\ inst[old].sup = "spawned"
                  THEN DropReplies(rtx, inst[old].queue) ELSE rtx
        /\ nInst' = new
        /\ UNCHANGED <<conn, call, senders, store, nMsgs, dedup, req, inj, rw,
                       rm, nRetryCalls, shut, boots, out, recov, hist>>

\* start_channel line 138: the sender of the id is removed from the map
StartRemoveSender(k) ==
    /\ Alive
    /\ inst[k].mc = "remove_sender"
    /\ senders' = [senders EXCEPT ![inst[k].ch] = NoInst]
    /\ inst' = [inst EXCEPT ![k].mc = "insert_sender"]
    /\ UNCHANGED <<conn, call, channels, nInst, store, nMsgs, dedup,
                   chanStore, req, rtx, inj, rw, rm, nRetryCalls, shut,
                   boots, out, recov, hist>>

\* start_channel lines 141-732: the queue is created, its sender is put in
\* the map, the supervisor task is spawned
StartInsertSender(k) ==
    /\ Alive
    /\ inst[k].mc = "insert_sender"
    /\ senders' = [senders EXCEPT ![inst[k].ch] = k]
    /\ inst' = [inst EXCEPT ![k].mc = "insert_handle", ![k].sup = "spawned"]
    /\ UNCHANGED <<conn, call, channels, nInst, store, nMsgs, dedup,
                   chanStore, req, rtx, inj, rw, rm, nRetryCalls, shut,
                   boots, out, recov, hist>>

\* start_channel lines 775-778: the handle is put in the map, where it takes
\* the place of a handle put there meanwhile, which is dropped, not
\* aborted; the call returns
StartInsertHandle(k) ==
    /\ Alive
    /\ inst[k].mc = "insert_handle"
    /\ channels' = [channels EXCEPT ![inst[k].ch] = k]
    /\ inst' = [inst EXCEPT ![k].mc = "done"]
    /\ hist' = [hist EXCEPT ![inst[k].ch] = Push(@, <<"start", k>>)]
    /\ UNCHANGED <<conn, call, senders, nInst, store, nMsgs, dedup,
                   chanStore, req, rtx, inj, rw, rm, nRetryCalls, shut,
                   boots, out, recov>>

\* stop_channel lines 95-98: under the lock of the handle map the handle of
\* c is removed; without a handle the call returns Err("not running")
StopRemoveHandle(c) ==
    /\ ApiUp
    /\ \A k \in InstIds : inst[k].mc # "stopping"
    /\ channels' = [channels EXCEPT ![c] = NoInst]
    /\ IF channels[c] = NoInst
       THEN /\ hist' = [hist EXCEPT ![c] = Push(@, <<"stop_err", 0>>)]
            /\ inst' = inst
       ELSE /\ inst' = [inst EXCEPT ![channels[c]].mc = "stopping"]
            /\ hist' = hist
    /\ UNCHANGED <<conn, call, senders, nInst, store, nMsgs, dedup,
                   chanStore, req, rtx, inj, rw, rm, nRetryCalls, shut,
                   boots, out, recov>>

\* stop_channel lines 100-108: the handle is aborted, the sender of the id
\* is removed from the map; the call returns Ok
StopRemoveSender(k) ==
    /\ Alive
    /\ inst[k].mc = "stopping"
    /\ inst' = [inst EXCEPT ![k] = [AbortSupervisor(@) EXCEPT !.mc = "done"]]
    /\ rtx' = IF inst[k].sup = "spawned"
              THEN DropReplies(rtx, inst[k].queue) ELSE rtx
    /\ senders' = [senders EXCEPT ![inst[k].ch] = NoInst]
    /\ hist' = [hist EXCEPT ![inst[k].ch] = Push(@, <<"stop", 0>>)]
    /\ UNCHANGED <<conn, call, channels, nInst, store, nMsgs, dedup,
                   chanStore, req, inj, rw, rm, nRetryCalls, shut, boots,
                   out, recov>>

\* delete_channel: stop_channel, tolerating "not running", then
\* ChannelStore.delete
DeleteChannel(c) ==
    /\ ApiUp
    /\ StopChannelOn(c)
    /\ chanStore' = [chanStore EXCEPT ![c] = <<>>]
    /\ hist' = [hist EXCEPT ![c] = Push(@, <<"delete", 0>>)]
    /\ UNCHANGED <<conn, call, nInst, store, nMsgs, dedup, req, inj, rw, rm,
                   nRetryCalls, shut, boots, out, recov>>

\* ----------------------------------------------------------- engine/init.rs
\* the fixed id of the Hello World channel
HELLO_WORLD_CHANNEL_ID == "c1"

\* get_channel_by_id: the stored configuration of channel c (Some), or none
get_channel_by_id(c) == chanStore[c]

\* an ensure_default_channels that does not look the channel up
EnsureDefaultChannelsAlways ==
    /\ Alive
    /\ StartChannelOn(HELLO_WORLD_CHANNEL_ID, HelloChannel)
    /\ hist' = [hist EXCEPT ![HELLO_WORLD_CHANNEL_ID] =
                   Push(Push(@, <<"start", nInst + 1>>), <<"ensure", 0>>)]
    /\ UNCHANGED <<conn, call, store, nMsgs, dedup, req, inj, rw, rm,
                   nRetryCalls, shut, boots, out, recov>>

\* ensure_default_channels: when no Hello World channel is stored, start
\* it; when one is stored, do nothing
EnsureDefaultChannels ==
    /\ Alive
    /\ IF get_channel_by_id(HELLO_WORLD_CHANNEL_ID) = <<>>
       THEN /\ StartChannelOn(HELLO_WORLD_CHANNEL_ID, HelloChannel)
            /\ hist' = [hist EXCEPT ![HELLO_WORLD_CHANNEL_ID] =
                  Push(Push(@, <<"start", nInst + 1>>), <<"ensure", 0>>)]
       ELSE /\ hist' = [hist EXCEPT ![HELLO_WORLD_CHANNEL_ID] =
                  Push(@, <<"ensure", 0>>)]
            /\ UNCHANGED <<channels, senders, inst, nInst, chanStore, rtx>>
    /\ UNCHANGED <<conn, call, store, nMsgs, dedup, req, inj, rw, rm,
                   nRetryCalls, shut, boots, out, recov>>

\* inject_message: look up the sender; send a new message with origin
\* "Manual Injection"; Ok once it is enqueued.  The message is not saved
\* in the message store and carries no reply handle.
InjectMessage(c, payload) ==
    /\ ApiUp
    /\ inj.n < MaxInject
    /\ LET k == senders[c] IN
       IF k = NoInst
       THEN /\ inj' = [n |-> inj.n + 1, ch |-> c, result |-> "not_found",
                       id |-> 0]
            /\ UNCHANGED <<inst, nMsgs>>
       ELSE IF ~ReceiverAlive(k)
       THEN /\ inj' = [n |-> inj.n + 1, ch |-> c,
                       result |-> "receiver_dropped", id |-> 0]
            /\ UNCHANGED <<inst, nMsgs>>
       ELSE /\ Len(inst[k].queue) < QueueCap
            /\ nMsgs < MaxMsgs
            /\ inst' = [inst EXCEPT ![k].queue =
                           Append(@, [id |-> nMsgs + 1, content |-> payload,
                                      origin |-> "Manual Injection",
                                      rtx |-> NoReq])]
            /\ nMsgs' = nMsgs + 1
            /\ inj' = [n |-> inj.n + 1, ch |-> c, result |-> "ok",
                       id |-> nMsgs + 1]
    /\ UNCHANGED <<conn, call, channels, senders, nInst, store, dedup, chanStore, req,
                   rtx, rw, rm, nRetryCalls, shut, boots, out, hist, recov>>

\* -------------------------------------------------------------- MessageStore
\* MessageStore::update_status: UPDATE messages SET status, [error_message,]
\* updated_at WHERE id = ?   (no row with that id: nothing changes)
update_status(st, id, status, error_message) ==
    IF id \in MsgIds /\ st[id].status # "NONE"
    THEN [st EXCEPT ![id].status = status,
                    ![id].error_message =
                        IF error_message = "" THEN @ ELSE error_message,
                    ![id].age = 0]
    ELSE st

\* MessageStore::increment_retry
increment_retry(st, id) ==
    IF id \in MsgIds /\ st[id].status # "NONE"
    THEN [st EXCEPT ![id].retry_count = @ + 1]
    ELSE st

\* -------------------------------------------------- supervisor and listener
\* first poll of the supervisor task: spawn listener and processor tasks
SupervisorPoll(k) ==
    /\ Alive
    /\ inst[k].sup = "spawned"
    /\ inst' = [inst EXCEPT ![k].sup = "running", ![k].lst = "spawned",
                            ![k].prc = "running", ![k].pc = "recv"]
    /\ UNCHANGED <<conn, call, channels, senders, nInst, store, nMsgs, dedup, chanStore,
                   req, rtx, inj, rw, rm, nRetryCalls, shut, boots, out, hist, recov>>

\* first poll of the listener task.  Http: HttpListener::start binds and
\* spawns the server task, or logs the bind error and returns; either way
\* the listener future then pends forever.  Tcp: TcpListener::run binds or
\* returns the error, which ends the listener task.  Test: pending().
ListenerStart(k) ==
    /\ Alive
    /\ inst[k].lst = "spawned"
    /\ LET r == inst[k]
           busy == PortBusy(r.cfg.port)
       IN inst' = [inst EXCEPT ![k] =
            CASE r.cfg.source = "Http" ->
                   [r EXCEPT !.lst = "running", !.srv = ~busy]
              [] r.cfg.source = "Tcp" ->
                   IF busy THEN [r EXCEPT !.lst = "exited"]
                   ELSE [r EXCEPT !.lst = "running", !.srv = TRUE]
              [] OTHER -> [r EXCEPT !.lst = "running"]]
    /\ UNCHANGED <<conn, call, channels, senders, nInst, store, nMsgs, dedup, chanStore,
                   req, rtx, inj, rw, rm, nRetryCalls, shut, boots, out, hist, recov>>

\* JoinHandle::abort on the listener task: a Tcp listener drops its socket;
\* the server task spawned by an Http listener is not affected
AbortListener(r) ==
    IF r.lst \in {"spawned", "running"}
    THEN [r EXCEPT !.lst = "aborted",
                   !.srv = IF r.cfg.source = "Tcp" THEN FALSE ELSE @]
    ELSE r

\* JoinHandle::abort on the processor task: the message in hand and the
\* queue (rx) are dropped
AbortProcessor(r) ==
    IF r.prc = "running"
    THEN [r EXCEPT !.prc = "aborted", !.cur = NoMsg, !.queue = <<>>,
                   !.pc = "recv"]
    ELSE r

RtxAfterAbortProcessor(f, r) ==
    IF r.prc = "running"
    THEN DropReplies(IF r.cur = NoMsg THEN f
                     ELSE EndOfScope(f, r.cur, "ABORTED", ""), r.queue)
    ELSE f

\* select! in the supervisor: the listener task has ended
SupervisorListenerExit(k) ==
    /\ Alive
    /\ inst[k].sup = "running"
    /\ inst[k].lst = "exited"
    /\ inst' = [inst EXCEPT ![k] = [AbortProcessor(@) EXCEPT !.sup = "ended"]]
    /\ rtx' = RtxAfterAbortProcessor(rtx, inst[k])
    /\ UNCHANGED <<conn, call, channels, senders, nInst, store, nMsgs, dedup, chanStore,
                   req, inj, rw, rm, nRetryCalls, shut, boots, out, hist, recov>>

\* select! in the supervisor: the processor task has ended
SupervisorProcessorExit(k) ==
    /\ Alive
    /\ inst[k].sup = "running"
    /\ inst[k].prc = "exited"
    /\ inst' = [inst EXCEPT ![k] = [AbortListener(@) EXCEPT !.sup = "ended"]]
    /\ UNCHANGED <<conn, call, channels, senders, nInst, store, nMsgs, dedup, chanStore,
                   req, rtx, inj, rw, rm, nRetryCalls, shut, boots, out, hist, recov>>

\* select! in the supervisor: shutdown signal received; abort the listener
\* and wait for the processor, at most 5 s
SupervisorShutdown(k) ==
    /\ Alive
    /\ inst[k].sup = "running"
    /\ inst[k].sig
    /\ inst' = [inst EXCEPT ![k] = [AbortListener(@) EXCEPT !.sup = "draining"]]
    /\ UNCHANGED <<conn, call, channels, senders, nInst, store, nMsgs, dedup, chanStore,
                   req, rtx, inj, rw, rm, nRetryCalls, shut, boots, out, hist, recov>>

\* the drain ends: the processor task has ended, or the 5 s sleep fired
\* (the processor's JoinHandle is dropped; the task is not aborted)
SupervisorDrained(k) ==
    /\ Alive
    /\ inst[k].sup = "draining"
    /\ inst' = [inst EXCEPT ![k].sup = "ended"]
    /\ UNCHANGED <<conn, call, channels, senders, nInst, store, nMsgs, dedup, chanStore,
                   req, rtx, inj, rw, rm, nRetryCalls, shut, boots, out, hist, recov>>

\* ------------------------------------------------------------ processor loop
Running(k) == Alive /\ inst[k].prc = "running"

DedupKey(k) == <<inst[k].ch, hash_content(inst[k].cur.content)>>

\* DeduplicationStore::is_duplicate
is_duplicate(k) == DedupKey(k) \in dedup

\* rx.recv(): the next message, or None once the queue is empty and every
\* Sender is gone, which ends the loop and the processor task
ProcRecv(k) ==
    /\ Running(k)
    /\ inst[k].pc = "recv"
    /\ IF inst[k].queue # <<>>
       THEN inst' = [inst EXCEPT ![k].cur = Head(inst[k].queue),
                                 ![k].queue = Tail(@),
                                 ![k].pc = "is_duplicate"]
       ELSE /\ ~SenderAlive(k)
            /\ inst' = [inst EXCEPT ![k].prc = "exited"]
    /\ UNCHANGED <<conn, call, channels, senders, nInst, store, nMsgs, dedup, chanStore,
                   req, rtx, inj, rw, rm, nRetryCalls, shut, boots, out, hist, recov>>

\* dedup.is_duplicate(..).await returned
ProcIsDuplicate(k) ==
    /\ Running(k)
    /\ inst[k].pc = "is_duplicate"
    /\ inst' = [inst EXCEPT ![k].pc = IF is_duplicate(k) THEN "dup_update"
                                      ELSE "mark_processed"]
    /\ UNCHANGED <<conn, call, channels, senders, nInst, store, nMsgs, dedup, chanStore,
                   req, rtx, inj, rw, rm, nRetryCalls, shut, boots, out, hist, recov>>

\* a duplicate branch without the continue: the message goes on to the
\* PROCESSING update and the processor chain
ProcDupUpdateThenProcess(k) ==
    /\ Running(k)
    /\ inst[k].pc = "dup_update"
    /\ store' = update_status(store, inst[k].cur.id, "FILTERED",
                              "Duplicate message")
    /\ rtx' = Resolve(rtx, inst[k].cur.rtx, TRUE, "Duplicate message skipped")
    /\ inst' = [inst EXCEPT ![k].pc = "set_processing"]
    /\ UNCHANGED <<conn, call, channels, senders, nInst, nMsgs, dedup, chanStore,
                   req, inj, rw, rm, nRetryCalls, shut, boots, out, hist, recov>>

\* duplicate: update_status(FILTERED, "Duplicate message"), reply, continue
ProcDupUpdate(k) ==
    /\ Running(k)
    /\ inst[k].pc = "dup_update"
    /\ store' = update_status(store, inst[k].cur.id, "FILTERED",
                              "Duplicate message")
    /\ rtx' = EndOfScope(Resolve(rtx, inst[k].cur.rtx, TRUE,
                                 "Duplicate message skipped"),
                         inst[k].cur, "DUPLICATE", "")
    /\ inst' = [inst EXCEPT ![k].cur = NoMsg, ![k].pc = "recv"]
    /\ UNCHANGED <<conn, call, channels, senders, nInst, nMsgs, dedup, chanStore,
                   req, inj, rw, rm, nRetryCalls, shut, boots, out, hist, recov>>

\* not a duplicate: dedup.mark_processed(..).await returned
ProcMarkProcessed(k) ==
    /\ Running(k)
    /\ inst[k].pc = "mark_processed"
    /\ dedup' = dedup \cup {DedupKey(k)}
    /\ inst' = [inst EXCEPT ![k].pc = "set_processing"]
    /\ UNCHANGED <<conn, call, channels, senders, nInst, store, nMsgs, chanStore,
                   req, rtx, inj, rw, rm, nRetryCalls, shut, boots, out, hist, recov>>

\* update_status(PROCESSING) returned; the processor chain then runs
\* synchronously up to the next await: the first destination, the
\* FILTERED update of a dropping filter, or the ERROR update
ProcSetProcessing(k) ==
    /\ Running(k)
    /\ inst[k].pc = "set_processing"
    /\ store' = update_status(store, inst[k].cur.id, "PROCESSING", "")
    /\ LET r == inst[k]
           res == RunChain(r.cfg.processors, 1, r.cur.content)
       IN CASE res.out = "pass" ->
                 /\ inst' = [inst EXCEPT ![k].cur.content = res.content,
                        ![k].pc = IF r.cfg.destinations = <<>>
                                  THEN "set_sent" ELSE "dest",
                        ![k].idx = 1]
                 /\ rtx' = rtx
            [] res.out = "filtered" ->
                 /\ inst' = [inst EXCEPT ![k].cur.content = res.content,
                                         ![k].pc = "filter_update"]
                 /\ rtx' = rtx
            [] OTHER ->
                 /\ inst' = [inst EXCEPT ![k].cur.content = res.content,
                                         ![k].pc = "set_error",
                                         ![k].err = res.err]
                 /\ rtx' = IF res.replied
                           THEN Resolve(rtx, r.cur.rtx, FALSE, res.err)
                           ELSE rtx
    /\ UNCHANGED <<conn, call, channels, senders, nInst, nMsgs, dedup, chanStore,
                   req, inj, rw, rm, nRetryCalls, shut, boots, out, hist, recov>>

\* a filter arm that goes on to the destinations after the FILTERED update
ProcFilterUpdateThenDest(k) ==
    /\ Running(k)
    /\ inst[k].pc = "filter_update"
    /\ store' = update_status(store, inst[k].cur.id, "FILTERED", "")
    /\ rtx' = Resolve(rtx, inst[k].cur.rtx, TRUE, "Message Filtered")
    /\ inst' = [inst EXCEPT ![k].pc = "dest", ![k].idx = 1]
    /\ UNCHANGED <<conn, call, channels, senders, nInst, nMsgs, dedup, chanStore,
                   req, inj, rw, rm, nRetryCalls, shut, boots, out, hist, recov>>

\* filter drop: update_status(FILTERED) returned; reply "Message Filtered"
ProcFilterUpdate(k) ==
    /\ Running(k)
    /\ inst[k].pc = "filter_update"
    /\ store' = update_status(store, inst[k].cur.id, "FILTERED", "")
    /\ rtx' = EndOfScope(Resolve(rtx, inst[k].cur.rtx, TRUE,
                                 "Message Filtered"),
                         inst[k].cur, "FILTERED", "")
    /\ inst' = [inst EXCEPT ![k].cur = NoMsg, ![k].pc = "recv"]
    /\ UNCHANGED <<conn, call, channels, senders, nInst, nMsgs, dedup, chanStore,
                   req, inj, rw, rm, nRetryCalls, shut, boots, out, hist, recov>>

\* chain failed: update_status(ERROR, error_msg) returned; route to the
\* error destination if it is a File or Http destination
ProcSetError(k) ==
    /\ Running(k)
    /\ inst[k].pc = "set_error"
    /\ store' = update_status(store, inst[k].cur.id, "ERROR", inst[k].err)
    /\ IF inst[k].cfg.error_destination \in {"File", "Http"}
       THEN /\ inst' = [inst EXCEPT ![k].pc = "err_dest"]
            /\ rtx' = rtx
       ELSE /\ inst' = [inst EXCEPT ![k].cur = NoMsg, ![k].pc = "recv",
                                    ![k].err = ""]
            /\ rtx' = EndOfScope(rtx, inst[k].cur, "ERROR", inst[k].err)
    /\ UNCHANGED <<conn, call, channels, senders, nInst, nMsgs, dedup, chanStore,
                   req, inj, rw, rm, nRetryCalls, shut, boots, out, hist, recov>>

Delivery(k, kind, ok) ==
    [kind |-> kind, ch |-> inst[k].ch, idx |-> inst[k].idx,
     id |-> inst[k].cur.id, content |-> inst[k].cur.content, ok |-> ok]

\* the send to the error destination returned, with success or failure
\* (a failure is only logged)
ProcErrDest(k, ok) ==
    /\ Running(k)
    /\ inst[k].pc = "err_dest"
    /\ out' = Append(out, Delivery(k, "error", ok))
    /\ rtx' = EndOfScope(rtx, inst[k].cur, "ERROR", inst[k].err)
    /\ inst' = [inst EXCEPT ![k].cur = NoMsg, ![k].pc = "recv", ![k].err = ""]
    /\ UNCHANGED <<conn, call, channels, senders, nInst, store, nMsgs, dedup, chanStore,
                   req, inj, rw, rm, nRetryCalls, shut, boots, hist, recov>>

\* a destination loop that a failed send ends
ProcDestStopOnFailure(k, ok) ==
    /\ Running(k)
    /\ inst[k].pc = "dest"
    /\ out' = Append(out, Delivery(k, "primary", ok))
    /\ inst' = IF ok /\ inst[k].idx < Len(inst[k].cfg.destinations)
               THEN [inst EXCEPT ![k].idx = @ + 1]
               ELSE [inst EXCEPT ![k].pc = "set_sent"]
    /\ UNCHANGED <<conn, call, channels, senders, nInst, store, nMsgs, dedup, chanStore,
                   req, rtx, inj, rw, rm, nRetryCalls, shut, boots, hist, recov>>

\* the send to destination number idx returned, with success or failure
\* (a failure is only logged)
ProcDest(k, ok) ==
    /\ Running(k)
    /\ inst[k].pc = "dest"
    /\ out' = Append(out, Delivery(k, "primary", ok))
    /\ inst' = IF inst[k].idx < Len(inst[k].cfg.destinations)
               THEN [inst EXCEPT ![k].idx = @ + 1]
               ELSE [inst EXCEPT ![k].pc = "set_sent"]
    /\ UNCHANGED <<conn, call, channels, senders, nInst, store, nMsgs, dedup, chanStore,
                   req, rtx, inj, rw, rm, nRetryCalls, shut, boots, hist, recov>>

\* update_status(SENT) returned; reply Ok("Processed")
ProcSetSent(k) ==
    /\ Running(k)
    /\ inst[k].pc = "set_sent"
    /\ store' = update_status(store, inst[k].cur.id, "SENT", "")
    /\ rtx' = EndOfScope(Resolve(rtx, inst[k].cur.rtx, TRUE, "Processed"),
                         inst[k].cur, "SENT", "")
    /\ inst' = [inst EXCEPT ![k].cur = NoMsg, ![k].pc = "recv", ![k].idx = 0]
    /\ UNCHANGED <<conn, call, channels, senders, nInst, nMsgs, dedup, chanStore,
                   req, inj, rw, rm, nRetryCalls, shut, boots, out, hist, recov>>

\* --------------------------------------------------------------- Tcp source
\* what a peer writes and one read of the socket returns: a frame, the two
\* halves of a frame, two frames at once
TcpData ==
    {Frame(<<65>>), <<SB, 65>>, <<EB, CR>>, Frame(<<65>>) \o Frame(<<65, 65>>)}

\* TcpListener::run accepts a connection and spawns handle_connection
TcpAccept(k) ==
    /\ Alive
    /\ inst[k].cfg.source = "Tcp" /\ inst[k].lst = "running" /\ inst[k].srv
    /\ conn.pc = "none"
    /\ conn' = [k |-> k, pc |-> "read", acc |-> NewAcc, msgs |-> <<>>,
                id |-> 0, acks |-> <<>>]
    /\ UNCHANGED <<call, channels, senders, inst, nInst, store, nMsgs, dedup,
                   chanStore, req, rtx, inj, rw, rm, nRetryCalls, shut,
                   boots, out, recov, hist>>

\* after one pass of the loop over the messages of a read: the next
\* message, or the next read
TcpNext(c) ==
    [c EXCEPT !.msgs = Tail(@), !.id = 0,
              !.pc = IF Len(c.msgs) > 1 THEN "save" ELSE "read"]

\* socket.read returned n > 0 bytes, which are fed to the accumulator
TcpRead(data) ==
    /\ Alive
    /\ conn.pc = "read"
    /\ LET r == feed(conn.acc, data) IN
       conn' = [conn EXCEPT !.acc = r.acc, !.msgs = r.messages,
                            !.pc = IF r.messages = <<>> THEN "read"
                                   ELSE "save"]
    /\ UNCHANGED <<call, channels, senders, inst, nInst, store, nMsgs, dedup,
                   chanStore, req, rtx, inj, rw, rm, nRetryCalls, shut,
                   boots, out, recov, hist>>

\* socket.read returned 0 or an error, or timed out: the handler returns
TcpEnd ==
    /\ Alive
    /\ conn.pc = "read"
    /\ conn' = [conn EXCEPT !.pc = "closed"]
    /\ UNCHANGED <<call, channels, senders, inst, nInst, store, nMsgs, dedup,
                   chanStore, req, rtx, inj, rw, rm, nRetryCalls, shut,
                   boots, out, recov, hist>>

\* a handler that dispatches a saved message before writing its ACK
TcpSaveThenSend(saved) ==
    /\ Alive
    /\ conn.pc = "save"
    /\ IF saved
       THEN /\ nMsgs < MaxMsgs
            /\ nMsgs' = nMsgs + 1
            /\ store' = [store EXCEPT ![nMsgs + 1] =
                           [NoRow EXCEPT !.status = "PENDING",
                                         !.channel_id = inst[conn.k].ch,
                                         !.content = Head(conn.msgs)]]
            /\ conn' = [conn EXCEPT !.id = nMsgs + 1, !.pc = "send"]
       ELSE /\ conn' = TcpNext(conn)
            /\ UNCHANGED <<store, nMsgs>>
    /\ UNCHANGED <<call, channels, senders, inst, nInst, dedup,
                   chanStore, req, rtx, inj, rw, rm, nRetryCalls, shut,
                   boots, out, recov, hist>>

\* save_message returned: Ok(id), and the ACK is written next; or an error,
\* which is logged, and the loop goes on with the next message
TcpSave(saved) ==
    /\ Alive
    /\ conn.pc = "save"
    /\ IF saved
       THEN /\ nMsgs < MaxMsgs
            /\ nMsgs' = nMsgs + 1
            /\ store' = [store EXCEPT ![nMsgs + 1] =
                           [NoRow EXCEPT !.status = "PENDING",
                                         !.channel_id = inst[conn.k].ch,
                                         !.content = Head(conn.msgs)]]
            /\ conn' = [conn EXCEPT !.id = nMsgs + 1, !.pc = "ack"]
       ELSE /\ conn' = TcpNext(conn)
            /\ UNCHANGED <<store, nMsgs>>
    /\ UNCHANGED <<call, channels, senders, inst, nInst, dedup,
                   chanStore, req, rtx, inj, rw, rm, nRetryCalls, shut,
                   boots, out, recov, hist>>

\* socket.write_all(ack) returned: Ok, and the message is dispatched next;
\* or an error, which ends the loop over the messages of this read
TcpAck(ok) ==
    /\ Alive
    /\ conn.pc = "ack"
    /\ conn' = IF ok
               THEN [conn EXCEPT !.pc = "send",
                        !.acks = Append(@, generate_ack(Head(conn.msgs)))]
               ELSE [conn EXCEPT !.pc = "read", !.msgs = <<>>, !.id = 0]
    /\ UNCHANGED <<call, channels, senders, inst, nInst, store, nMsgs, dedup,
                   chanStore, req, rtx, inj, rw, rm, nRetryCalls, shut,
                   boots, out, recov, hist>>

\* sender.send(msg) returned: Ok, or the error of a closed queue, which
\* ends the loop over the messages of this read
TcpSend ==
    /\ Alive
    /\ conn.pc = "send"
    /\ IF ReceiverAlive(conn.k)
       THEN /\ Len(inst[conn.k].queue) < QueueCap
            /\ inst' = [inst EXCEPT ![conn.k].queue =
                           Append(@, [id |-> conn.id,
                                      content |-> Head(conn.msgs),
                                      origin |-> "TCP", rtx |-> NoReq])]
            /\ conn' = TcpNext(conn)
       ELSE /\ conn' = [conn EXCEPT !.pc = "read", !.msgs = <<>>, !.id = 0]
            /\ inst' = inst
    /\ UNCHANGED <<call, channels, senders, nInst, store, nMsgs, dedup,
                   chanStore, req, rtx, inj, rw, rm, nRetryCalls, shut,
                   boots, out, recov, hist>>

\* ------------------------------------------------------------- HTTP ingress
\* handler: save_message, build the message with a reply handle, send it
\* to the pipeline, then wait for the reply
HttpRequest(r, k, body) ==
    /\ Alive
    /\ req[r].pc = "idle"
    /\ inst[k].srv /\ inst[k].cfg.source = "Http"
    /\ nMsgs < MaxMsgs
    /\ \E saved \in BOOLEAN :
         IF ~saved
         THEN /\ req' = [req EXCEPT ![r] = [pc |-> "done", id |-> 0,
                            status |-> 500, body |-> "Persistence Failed"]]
              /\ UNCHANGED <<store, nMsgs, inst, rtx>>
         ELSE LET m == nMsgs + 1 IN
              /\ nMsgs' = m
              /\ store' = [store EXCEPT ![m] =
                             [NoRow EXCEPT !.status = "PENDING",
                                           !.channel_id = inst[k].ch,
                                           !.content = body]]
              /\ IF ReceiverAlive(k)
                 THEN /\ Len(inst[k].queue) < QueueCap
                      /\ inst' = [inst EXCEPT ![k].queue =
                             Append(@, [id |-> m, content |-> body,
                                        origin |-> "HTTP", rtx |-> r])]
                      /\ rtx' = [rtx EXCEPT ![r] = [NoRtx EXCEPT !.st = "open"]]
                      /\ req' = [req EXCEPT ![r] = [pc |-> "wait", id |-> m,
                                     status |-> 0, body |-> ""]]
                 ELSE /\ req' = [req EXCEPT ![r] = [pc |-> "done", id |-> m,
                                     status |-> 500, body |-> "Internal Error"]]
                      /\ UNCHANGED <<inst, rtx>>
    /\ UNCHANGED <<conn, call, channels, senders, nInst, dedup, chanStore, inj, rw, rm,
                   nRetryCalls, shut, boots, out, recov, hist>>

\* timeout(30 s, rx) returned the reply, or the error of a dropped handle
HttpResponse(r) ==
    /\ Alive
    /\ req[r].pc = "wait"
    /\ rtx[r].st \in {"sent", "dropped"}
    /\ req' = [req EXCEPT ![r].pc = "done",
          ![r].status = IF rtx[r].st = "dropped" THEN 500
                        ELSE IF rtx[r].ok THEN 200 ELSE 400,
          ![r].body = IF rtx[r].st = "dropped" THEN "Channel Dropped Response"
                      ELSE IF rtx[r].ok THEN "Message Processed Successfully"
                      ELSE rtx[r].text]
    /\ UNCHANGED <<conn, call, channels, senders, inst, nInst, store, nMsgs, dedup,
                   chanStore, rtx, inj, rw, rm, nRetryCalls, shut, boots, out,
                   recov, hist>>

\* timeout(30 s, rx) elapsed; the handler drops rx: a later send on the
\* reply handle still consumes it and its result is ignored
HttpTimeout(r) ==
    /\ Alive
    /\ req[r].pc = "wait"
    /\ rtx[r].st = "open"
    /\ req' = [req EXCEPT ![r].pc = "done", ![r].status = 504,
                          ![r].body = "Processing Timeout"]
    /\ UNCHANGED <<conn, call, channels, senders, inst, nInst, store, nMsgs, dedup,
                   chanStore, rtx, inj, rw, rm, nRetryCalls, shut, boots, out,
                   recov, hist>>

\* ------------------------------------------------------------------- time
MaxAge == 2         \* minutes since updated_at that the model tells apart

\* one minute passes
Tick ==
    /\ Alive
    /\ \E m \in MsgIds : store[m].status # "NONE" /\ store[m].age < MaxAge
    /\ store' = [m \in MsgIds |->
                   IF store[m].status # "NONE" /\ store[m].age < MaxAge
                   THEN [store[m] EXCEPT !.age = @ + 1] ELSE store[m]]
    /\ rw' = [rw EXCEPT !.rows =
                 [i \in DOMAIN rw.rows |->
                     IF rw.rows[i].age < MaxAge
                     THEN [rw.rows[i] EXCEPT !.age = @ + 1]
                     ELSE rw.rows[i]]]
    /\ UNCHANGED <<conn, call, channels, senders, inst, nInst, nMsgs, dedup, chanStore,
                   req, rtx, inj, rm, nRetryCalls, shut, boots, out, recov,
                   hist>>

\* ------------------------------------------------------------- retry worker
RECURSIVE Pow2(_)
Pow2(n) == IF n = 0 THEN 1 ELSE 2 * Pow2(n - 1)

\* Utc::now() >= updated_at + 2^retry_count minutes
Due(row) == row.age >= Pow2(row.retry_count)

\* SELECT .. FROM messages WHERE status = 'ERROR'
RECURSIVE ErrorRows(_)
ErrorRows(m) ==
    IF m > MaxMsgs THEN <<>>
    ELSE IF store[m].status = "ERROR"
         THEN <<[id |-> m, channel_id |-> store[m].channel_id,
                 content |-> store[m].content,
                 retry_count |-> store[m].retry_count,
                 age |-> store[m].age]>> \o ErrorRows(m + 1)
         ELSE ErrorRows(m + 1)

\* the for loop up to its next await: rows that are not due, or whose
\* channel has no sender, are passed over
RECURSIVE RwSkip(_)
RwSkip(rows) ==
    IF rows = <<>> THEN <<>>
    ELSE IF Due(rows[1]) /\ senders[rows[1].channel_id] # NoInst THEN rows
    ELSE RwSkip(Tail(rows))

RwNext(rows) ==
    LET rest == RwSkip(rows) IN
    IF rest = <<>> THEN [pc |-> "sleep", rows |-> <<>>, k |-> NoInst]
    ELSE [pc |-> "update", rows |-> rest, k |-> senders[rest[1].channel_id]]

\* process_retries: the query returned
RetryScan ==
    /\ shut.pc \in {"up", "joining", "returned"}
    /\ rw.pc = "sleep"
    /\ RwSkip(ErrorRows(1)) # <<>>
    /\ rw' = RwNext(ErrorRows(1))
    /\ UNCHANGED <<conn, call, channels, senders, inst, nInst, store, nMsgs, dedup,
                   chanStore, req, rtx, inj, rm, nRetryCalls, shut, boots, out,
                   recov, hist>>

\* UPDATE messages SET status = 'PROCESSING', retry_count = ?, updated_at
RetryUpdate ==
    /\ Alive
    /\ rw.pc = "update"
    /\ store' = [store EXCEPT ![rw.rows[1].id].status = "PROCESSING",
                              ![rw.rows[1].id].retry_count =
                                  rw.rows[1].retry_count + 1,
                              ![rw.rows[1].id].age = 0]
    /\ rw' = [rw EXCEPT !.pc = "send"]
    /\ UNCHANGED <<conn, call, channels, senders, inst, nInst, nMsgs, dedup, chanStore,
                   req, rtx, inj, rm, nRetryCalls, shut, boots, out, recov,
                   hist>>

\* sender.send(msg).await returned (an error is only logged)
RetrySend ==
    /\ Alive
    /\ rw.pc = "send"
    /\ IF ReceiverAlive(rw.k)
       THEN /\ Len(inst[rw.k].queue) < QueueCap
            /\ inst' = [inst EXCEPT ![rw.k].queue =
                  Append(@, [id |-> rw.rows[1].id,
                             content |-> rw.rows[1].content,
                             origin |-> "retry_worker", rtx |-> NoReq])]
       ELSE inst' = inst
    /\ rw' = RwNext(Tail(rw.rows))
    /\ UNCHANGED <<conn, call, channels, senders, nInst, store, nMsgs, dedup, chanStore,
                   req, rtx, inj, rm, nRetryCalls, shut, boots, out, recov,
                   hist>>

\* ------------------------------------------------------------ retry_message
\* get_message_by_id returned: the record, or "Message not found"
RetryMessageGet(id) ==
    /\ ApiUp
    /\ rm.pc = "idle"
    /\ nRetryCalls < MaxRetryCalls
    /\ nRetryCalls' = nRetryCalls + 1
    /\ rm' = IF store[id].status = "NONE"
             THEN [NoRm EXCEPT !.id = id, !.result = "Message not found"]
             ELSE [NoRm EXCEPT !.pc = "increment", !.id = id,
                               !.rec = store[id]]
    /\ UNCHANGED <<conn, call, channels, senders, inst, nInst, store, nMsgs, dedup,
                   chanStore, req, rtx, inj, rw, shut, boots, out, recov, hist>>

\* increment_retry returned
RetryMessageIncrement ==
    /\ Alive
    /\ rm.pc = "increment"
    /\ store' = increment_retry(store, rm.id)
    /\ rm' = [rm EXCEPT !.pc = "status"]
    /\ UNCHANGED <<conn, call, channels, senders, inst, nInst, nMsgs, dedup, chanStore,
                   req, rtx, inj, rw, nRetryCalls, shut, boots, out, recov,
                   hist>>

\* update_status(PENDING) returned; look up the sender of the channel
RetryMessageStatus ==
    /\ Alive
    /\ rm.pc = "status"
    /\ store' = update_status(store, rm.id, "PENDING", "")
    /\ rm' = IF senders[rm.rec.channel_id] = NoInst
             THEN [rm EXCEPT !.pc = "idle", !.result = "Channel not running"]
             ELSE [rm EXCEPT !.pc = "send",
                             !.k = senders[rm.rec.channel_id]]
    /\ UNCHANGED <<conn, call, channels, senders, inst, nInst, nMsgs, dedup, chanStore,
                   req, rtx, inj, rw, nRetryCalls, shut, boots, out, recov,
                   hist>>

\* tx.send(msg).await returned
RetryMessageSend ==
    /\ Alive
    /\ rm.pc = "send"
    /\ IF ReceiverAlive(rm.k)
       THEN /\ Len(inst[rm.k].queue) < QueueCap
            /\ inst' = [inst EXCEPT ![rm.k].queue =
                  Append(@, [id |-> rm.id, content |-> rm.rec.content,
                             origin |-> "RETRY_API", rtx |-> NoReq])]
            /\ rm' = [rm EXCEPT !.pc = "idle", !.k = NoInst, !.result = "ok"]
       ELSE /\ inst' = inst
            /\ rm' = [rm EXCEPT !.pc = "idle", !.k = NoInst,
                                !.result = "Channel receiver dropped"]
    /\ UNCHANGED <<conn, call, channels, senders, nInst, store, nMsgs, dedup, chanStore,
                   req, rtx, inj, rw, nRetryCalls, shut, boots, out, recov,
                   hist>>

\* ----------------------------------------------------------------- shutdown
\* shutdown_all up to its first join: broadcast the signal, clear the
\* sender map, move the handles out of the channel map
ShutdownAll ==
    /\ shut.pc = "up"
    /\ inst' = [k \in InstIds |->
                  IF inst[k].sup \in {"spawned", "running"}
                  THEN [inst[k] EXCEPT !.sig = TRUE] ELSE inst[k]]
    /\ senders' = [c \in ChannelIds |-> NoInst]
    /\ channels' = [c \in ChannelIds |-> NoInst]
    /\ LET hs == {channels[c] : c \in ChannelIds} \ {NoInst} IN
       shut' = [pc |-> IF hs = {} THEN "returned" ELSE "joining",
                handles |-> hs]
    /\ hist' = [c \in ChannelIds |-> Push(hist[c], <<"shutdown", 0>>)]
    /\ UNCHANGED <<conn, call, nInst, store, nMsgs, dedup, chanStore, req, rtx, inj, rw,
                   rm, nRetryCalls, boots, out, recov>>

\* timeout(3 s, handle).await returned: the supervisor task has ended, or
\* the 3 s elapsed
ShutdownJoin(k) ==
    /\ shut.pc = "joining"
    /\ k \in shut.handles
    /\ shut' = [pc |-> IF shut.handles = {k} THEN "returned" ELSE "joining",
                handles |-> shut.handles \ {k}]
    /\ UNCHANGED <<conn, call, channels, senders, inst, nInst, store, nMsgs, dedup,
                   chanStore, req, rtx, inj, rw, rm, nRetryCalls, boots, out,
                   recov, hist>>

\* the process ends: every task, queue and reply handle is gone; the
\* database and the files written stay
Wiped(how) ==
    /\ shut' = [pc |-> how, handles |-> {}]
    /\ channels' = [c \in ChannelIds |-> NoInst]
    /\ senders' = [c \in ChannelIds |-> NoInst]
    /\ inst' = [k \in InstIds |-> NoInstRec]
    /\ nInst' = 0
    /\ req' = [r \in ReqIds |->
                 IF req[r].pc = "wait"
                 THEN [req[r] EXCEPT !.pc = "done", !.body = "connection lost"]
                 ELSE req[r]]
    /\ rtx' = [r \in ReqIds |->
                 IF rtx[r].st = "open" THEN [rtx[r] EXCEPT !.st = "dropped"]
                 ELSE rtx[r]]
    /\ rw' = [pc |-> "sleep", rows |-> <<>>, k |-> NoInst]
    /\ rm' = NoRm
    /\ recov' = {}
    /\ hist' = [c \in ChannelIds |-> <<>>]
    /\ UNCHANGED <<conn, call, store, nMsgs, dedup, chanStore, inj, nRetryCalls, boots,
                   out>>

\* main returns after shutdown_signal has completed
ProcessExit ==
    /\ shut.pc = "returned"
    /\ Wiped("exited")

\* the process is killed
Kill ==
    /\ Alive
    /\ boots < MaxBoots
    /\ Wiped("killed")

\* --------------------------------------------------------------------- boot
\* main: the process starts again
BootBegin ==
    /\ shut.pc \in {"exited", "killed"}
    /\ boots < MaxBoots
    /\ boots' = boots + 1
    /\ shut' = [pc |-> "booting", handles |-> {}]
    /\ UNCHANGED <<conn, call, channels, senders, inst, nInst, store, nMsgs, dedup,
                   chanStore, req, rtx, inj, rw, rm, nRetryCalls, out, recov,
                   hist>>

\* main: deploy a channel loaded from the channels table
BootStartChannel(c) ==
    /\ shut.pc = "booting"
    /\ chanStore[c] # <<>>
    /\ channels[c] = NoInst
    /\ StartChannelOn(c, chanStore[c][1])
    /\ hist' = [hist EXCEPT ![c] = Push(@, <<"start", nInst + 1>>)]
    /\ UNCHANGED <<conn, call, store, nMsgs, dedup, req, inj, rw, rm, nRetryCalls, shut,
                   boots, out, recov>>

\* a query without the WHERE clause
AllRowIds == {m \in MsgIds : store[m].status # "NONE"}

\* SELECT * FROM messages WHERE status = 'PENDING' OR status = 'PROCESSING'
PendingIds == {m \in MsgIds : store[m].status \in {"PENDING", "PROCESSING"}}

\* recover_pending_messages: for every pending row whose channel has a
\* sender, spawn a task that sends a message with origin "RECOVERY" and
\* the row's id
RecoverPendingMessages ==
    /\ shut.pc = "booting"
    /\ \A c \in ChannelIds : chanStore[c] # <<>> => channels[c] # NoInst
    /\ recov' = {[id |-> m, content |-> store[m].content,
                  k |-> senders[store[m].channel_id]] :
                    m \in {x \in PendingIds :
                              senders[store[x].channel_id] # NoInst}}
    /\ shut' = [shut EXCEPT !.pc = "up"]
    /\ UNCHANGED <<conn, call, channels, senders, inst, nInst, store, nMsgs, dedup,
                   chanStore, req, rtx, inj, rw, rm, nRetryCalls, boots, out,
                   hist>>

\* a spawned recovery task: tx.send(msg).await returned
RecoverSend(t) ==
    /\ Alive
    /\ t \in recov
    /\ IF ReceiverAlive(t.k)
       THEN /\ Len(inst[t.k].queue) < QueueCap
            /\ inst' = [inst EXCEPT ![t.k].queue =
                  Append(@, [id |-> t.id, content |-> t.content,
                             origin |-> "RECOVERY", rtx |-> NoReq])]
       ELSE inst' = inst
    /\ recov' = recov \ {t}
    /\ UNCHANGED <<conn, call, channels, senders, nInst, store, nMsgs, dedup, chanStore,
                   req, rtx, inj, rw, rm, nRetryCalls, shut, boots, out, hist>>

\* ------------------------------------------------------------ specifications
\* steps of the supervisor, listener and processor tasks of a deployment
Deployment ==
    \/ \E k \in InstIds : SupervisorPoll(k)
    \/ \E k \in InstIds : ListenerStart(k)
    \/ \E k \in InstIds : ProcRecv(k)
    \/ \E k \in InstIds : ProcIsDuplicate(k)
    \/ \E k \in InstIds : ProcMarkProcessed(k)
    \/ \E k \in InstIds : ProcSetProcessing(k)
    \/ \E k \in InstIds : ProcDest(k, TRUE)
    \/ \E k \in InstIds : ProcSetSent(k)

\* the registry in normal operation (no shutdown in progress): manager
\* calls on Test and Tcp channels, injected messages
NextRegistry ==
    \/ \E c \in ChannelIds, cfg \in {FilterChannel, TcpChannel} :
          StartChannel(c, cfg)
    \/ \E c \in ChannelIds : StopChannel(c)
    \/ \E c \in ChannelIds : DeleteChannel(c)
    \/ \E c \in ChannelIds, b \in {"hello"} : InjectMessage(c, b)
    \/ Deployment
    \/ \E k \in InstIds : SupervisorListenerExit(k)

SpecRegistry == Init /\ [][NextRegistry]_vars

\* start_channel and stop_channel calls of one channel id that run at the
\* same time, each taking its locks one after the other; injected messages
NextConcurrent ==
    \/ \E c \in ChannelIds : StartRemoveHandle(c, FilterChannel)
    \/ \E k \in InstIds : StartRemoveSender(k)
    \/ \E k \in InstIds : StartInsertSender(k)
    \/ \E k \in InstIds : StartInsertHandle(k)
    \/ \E c \in ChannelIds : StopRemoveHandle(c)
    \/ \E k \in InstIds : StopRemoveSender(k)
    \/ \E c \in ChannelIds : InjectMessage(c, "hello")
    \/ Deployment

SpecConcurrent == Init /\ [][NextConcurrent]_vars

\* HTTP ingress on an Http channel
Ingress ==
    \/ \E r \in ReqIds, k \in InstIds, b \in {"hello"} : HttpRequest(r, k, b)
    \/ \E r \in ReqIds : HttpResponse(r)
    \/ \E r \in ReqIds : HttpTimeout(r)

\* the failure branch of the processor loop
Failure ==
    \/ \E k \in InstIds : ProcSetError(k)
    \/ \E k \in InstIds : ProcErrDest(k, TRUE)

\* create_channel on a channel that is not deployed
Deploy(c, cfg) ==
    /\ channels[c] = NoInst
    /\ StartChannel(c, cfg)

\* the message lifecycle: persisted HTTP messages on a channel, deployed
\* once, whose chain passes or raises; the retry worker and retry_message
NextLifecycle ==
    \/ \E c \in ChannelIds, 
          cfg \in {HelloChannel, RaiseChannel, NoRetryChannel} :
          Deploy(c, cfg)
    \/ Deployment
    \/ \E k \in InstIds : ProcDupUpdate(k)
    \/ Failure
    \/ Ingress
    \/ Tick
    \/ RetryScan
    \/ RetryUpdate
    \/ RetrySend
    \/ \E id \in MsgIds : RetryMessageGet(id)
    \/ RetryMessageIncrement
    \/ RetryMessageStatus
    \/ RetryMessageSend

SpecLifecycle == Init /\ [][NextLifecycle]_vars

\* retry_message calls for the rows of an Http channel that is deployed,
\* stopped and deployed again
NextRetryApi ==
    \/ \E c \in ChannelIds : Deploy(c, HelloChannel)
    \/ \E c \in ChannelIds : StopChannel(c)
    \/ Deployment
    \/ \E k \in InstIds : ProcDupUpdate(k)
    \/ Ingress
    \/ \E id \in MsgIds : RetryMessageGet(id)
    \/ RetryMessageIncrement
    \/ RetryMessageStatus
    \/ RetryMessageSend

SpecRetryApi == Init /\ [][NextRetryApi]_vars

\* replies: HTTP requests on a channel whose chain passes, raises in a Lua
\* processor or fails in a mapper; injected messages on a filter channel
NextReply ==
    \/ \E c \in ChannelIds,
          cfg \in {HelloChannel, RaiseChannel, MapperChannel, FilterChannel} :
          Deploy(c, cfg)
    \/ Deployment
    \/ \E k \in InstIds : ProcFilterUpdate(k)
    \/ Failure
    \/ Ingress
    \/ \E c \in ChannelIds, b \in Bodies : InjectMessage(c, b)

SpecReply == Init /\ [][NextReply]_vars

\* graceful shutdown of a process that serves one channel, Http or Test
NextShutdown ==
    \/ \E c \in ChannelIds, cfg \in {HelloChannel, FilterChannel} :
          Deploy(c, cfg)
    \/ Deployment
    \/ Ingress
    \/ ShutdownAll
    \/ \E k \in InstIds : ShutdownJoin(k)
    \/ \E k \in InstIds : SupervisorShutdown(k)
    \/ \E k \in InstIds : SupervisorDrained(k)
    \/ \E k \in InstIds : SupervisorProcessorExit(k)
    \/ ProcessExit

SpecShutdown == Init /\ [][NextShutdown]_vars

\* a process that serves one Http channel is killed and started again
NextRecovery ==
    \/ \E c \in ChannelIds : Deploy(c, HelloChannel)
    \/ Deployment
    \/ \E k \in InstIds : ProcDupUpdate(k)
    \/ Ingress
    \/ Kill
    \/ BootBegin
    \/ \E c \in ChannelIds : BootStartChannel(c)
    \/ RecoverPendingMessages
    \/ \E t \in recov : RecoverSend(t)

SpecRecovery == Init /\ [][NextRecovery]_vars

\* redeploys of the Hello World channel; HTTP requests and injected
\* messages with the same content
NextRedeploy ==
    \/ \E c \in ChannelIds : StartChannel(c, HelloChannel)
    \/ Deployment
    \/ \E k \in InstIds : ProcDupUpdate(k)
    \/ Ingress
    \/ \E c \in ChannelIds : InjectMessage(c, "hello")

SpecRedeploy == Init /\ [][NextRedeploy]_vars

\* a new manager with an empty channel store, on which
\* ensure_default_channels is called any number of times; HTTP requests and
\* injected messages on the channel it starts
NextDefault ==
    \/ EnsureDefaultChannels
    \/ Deployment
    \/ \E k \in InstIds : ProcDupUpdate(k)
    \/ Ingress
    \/ \E c \in ChannelIds : InjectMessage(c, "hello")

SpecDefault == Init /\ [][NextDefault]_vars

\* ------------------------------------------------------------------ registry
\* the supervisor tasks of channel c that have not ended
ActiveSupervisors(c) ==
    {k \in InstIds : inst[k].ch = c
                      /\ inst[k].sup \in {"spawned", "running", "draining"}}

\* the kind of the last manager call completed on channel c
LastCall(h) == IF h = <<>> THEN "none" ELSE h[Len(h)][1]

\* C5: when start_channel(c) completes and the call completed on c just
\* before it was start_channel(c) too, the registry holds one handle and one
\* sender for c, both of the second deployment, and the second deployment's
\* supervisor is the only supervisor of c that has not ended.
C5_RedeployLeavesOneSupervisor ==
    [][\A c \in ChannelIds :
          (/\ hist'[c] # hist[c]
           /\ LastCall(hist[c]) = "start"
           /\ LastCall(hist'[c]) = "start")
          => /\ channels'[c] = nInst'
             /\ senders'[c] = nInst'
             /\ nInst' = nInst + 1
             /\ ActiveSupervisors(c)' = {nInst'}]_vars

\* C5 witness: two start_channel calls in a row, the first deployment's
\* supervisor was running and has been aborted, the second is registered
C5_Witness ==
    \E c \in ChannelIds :
        /\ Len(hist[c]) = 2
        /\ hist[c][1] = <<"start", 1>>
        /\ hist[c][2] = <<"start", 2>>
        /\ inst[1].sup = "aborted"
        /\ inst[1].prc = "running"
        /\ channels[c] = 2
        /\ senders[c] = 2

\* C6: when delete_channel(c) completes no sender (and no handle) is
\* registered for c; an inject_message(c) that completes while
\* delete_channel(c) is the last call completed on c fails with "channel not
\* found" and enqueues nothing.
C6_DeleteUnregistersSender ==
    [][\A c \in ChannelIds :
          /\ (hist'[c] # hist[c] /\ LastCall(hist'[c]) = "delete")
                => (senders'[c] = NoInst /\ channels'[c] = NoInst)
          /\ (LastCall(hist[c]) = "delete" /\ inj'.n = inj.n + 1
                 /\ inj'.ch = c)
                => (/\ inj'.result = "not_found"
                    /\ inst' = inst
                    /\ nMsgs' = nMsgs)]_vars

\* C6 witness: a deployed channel whose supervisor was running was deleted
\* and the inject_message that followed failed
C6_Witness ==
    \E c \in ChannelIds :
        /\ Len(hist[c]) = 2
        /\ hist[c][1] = <<"start", 1>>
        /\ hist[c][2][1] = "delete"
        /\ inst[1].sup = "aborted"
        /\ inst[1].prc = "running"
        /\ chanStore[c] = <<>>
        /\ inj.n = 1
        /\ inj.ch = c
        /\ inj.result = "not_found"

\* ----------------------------------------------------------------- lifecycle
\* the status changes the lifecycle allows
AllowedChanges ==
    {<<"PENDING", "PROCESSING">>, <<"PROCESSING", "SENT">>,
     <<"PROCESSING", "FILTERED">>, <<"PROCESSING", "ERROR">>,
     <<"ERROR", "PROCESSING">>}

\* C1: every change of a persisted message's status is PENDING ->
\* PROCESSING, PROCESSING -> SENT / FILTERED / ERROR, or ERROR -> PROCESSING;
\* no step makes any other change.
C1_OnlyLifecycleChanges ==
    [][\A m \in MsgIds :
          (store[m].status # "NONE" /\ store'[m].status # store[m].status)
          => <<store[m].status, store'[m].status>> \in AllowedChanges]_vars

\* message id m is in a queue or in the hands of a processor
InPipeline(m) ==
    \E k \in InstIds :
        \/ inst[k].cur.id = m
        \/ \E i \in DOMAIN inst[k].queue : inst[k].queue[i].id = m

\* C2: SENT and FILTERED are terminal: no step changes the status of a
\* message that is SENT or FILTERED, and none enqueues it again.
C2_TerminalStatuses ==
    [][\A m \in MsgIds :
          store[m].status \in {"SENT", "FILTERED"}
          => /\ store'[m].status = store[m].status
             /\ (InPipeline(m)' => InPipeline(m))]_vars

\* C7: the persisted retry_count of a message never decreases.
C7_RetryCountMonotonic ==
    [][\A m \in MsgIds :
          store'[m].retry_count >= store[m].retry_count]_vars

\* -------------------------------------------------------------------- replies
\* the paths on which the processor loop finishes with a message
TerminalPaths == {"SENT", "FILTERED", "DUPLICATE", "ERROR"}

\* C8: on every terminal path of the processor loop (SENT, FILTERED,
\* duplicate, chain error of any processor type) the reply handle of the
\* message has been resolved: a result was sent on it, once.
C8_ReplyResolvedOnEveryPath ==
    \A r \in ReqIds :
        rtx[r].path \in TerminalPaths => rtx[r].st = "sent"

\* C9: an HTTP request that did not time out is answered 200 when the
\* pipeline finished the message without error, and 400 with the
\* processor's error text when the chain failed, whichever processor failed.
C9_HttpStatusMapping ==
    \A r \in ReqIds :
        (req[r].pc = "done" /\ req[r].status # 504)
        => /\ rtx[r].path \in {"SENT", "FILTERED", "DUPLICATE"}
                => req[r].status = 200
           /\ rtx[r].path = "ERROR"
                => (req[r].status = 400 /\ req[r].body = rtx[r].err)

\* C10: inject_message returns Ok only after the pipeline has finished with
\* the injected message (no time passes within the step that returns).
C10_InjectWaitsForReply ==
    [][\A m \in MsgIds :
          (inj'.n = inj.n + 1 /\ inj'.result = "ok" /\ inj'.id = m)
          => ~InPipeline(m)']_vars

\* --------------------------------------------------- shutdown and recovery
\* C3: once shutdown_all has returned (and after the process has exited),
\* no persisted message has status PROCESSING.
C3_NoProcessingAfterShutdown ==
    shut.pc \in {"returned", "exited"}
    => \A m \in MsgIds : store[m].status # "PROCESSING"

\* C4: a message that recovery re-enqueued (origin "RECOVERY", the row's
\* id) for a row that is PROCESSING, on a channel whose chain passes, is
\* not set to FILTERED.
C4_RecoveredMessageNotFiltered ==
    [][\A k \in InstIds :
          (/\ inst[k].cur.origin = "RECOVERY"
           /\ store[inst[k].cur.id].status = "PROCESSING")
          => store'[inst[k].cur.id].status # "FILTERED"]_vars

\* ------------------------------------------------------------ deduplication
\* ------------------------------------------------ functions on their own
\* the stream  SB m1 EB CR SB m2 EB CR  about to be fed to a new accumulator
FeedCalls ==
    {[fn |-> "feed", m1 |-> a, m2 |-> b, rest |-> Frame(a) \o Frame(b),
      acc |-> NewAcc, got |-> <<>>, cut |-> FALSE] :
        a \in Texts(MaxTextLen), b \in Texts(MaxTextLen)}

\* field number i (from 1) of a first segment named seg, sent by app sa to
\* app ra with control id id
FirstSegmentField(i, seg, sa, ra, id) ==
    CASE i = 1 -> seg
      [] i = 2 -> Lit.enc
      [] i = 3 -> sa
      [] i = 4 -> Lit.H1
      [] i = 5 -> ra
      [] i = 6 -> Lit.S1
      [] i = 7 -> Lit.now
      [] i = 8 -> <<>>
      [] i = 9 -> Lit.ADT
      [] i = 10 -> id
      [] OTHER -> Lit.P

\* received HL7 messages: a first segment, MSH or not, of 9 (one fewer than
\* generate_ack asks for) to MaxFields fields, alone or followed by a PID
\* segment
AckCalls ==
    {[fn |-> "generate_ack",
      fields |-> [i \in 1..n |-> FirstSegmentField(i, seg, sa, ra, id)],
      more |-> more, result |-> <<>>] :
        n \in 9..MaxFields, seg \in {Lit.MSH, Lit.PID},
        sa \in {Lit.HIS, Lit.LAB}, ra \in {Lit.HIS, Lit.LAB},
        id \in {Lit.M1, Lit.M2}, more \in BOOLEAN}

\* what the peer of a Tcp destination does after the frame was written:
\* nothing, or an acknowledgment MSH|..|app|..|ACK|.. CR MSA|code[|id] sent
\* by an application named app
SendCalls ==
    {[fn |-> "send", ev |-> ev, app |-> <<>>, code |-> <<>>, id |-> FALSE,
      done |-> FALSE, result |-> [ok |-> FALSE, err |-> ""]] :
        ev \in {"closed", "error", "timeout"}}
    \cup
    {[fn |-> "send", ev |-> "data", app |-> app, code |-> code, id |-> id,
      done |-> FALSE, result |-> [ok |-> FALSE, err |-> ""]] :
        app \in {Lit.HIS, Lit.AA},
        code \in {Lit.AA, Lit.CA, Lit.AE, Lit.CE, Lit.AR, Lit.CR},
        id \in BOOLEAN}

\* the calls drawn: a stream to feed, a message to acknowledge, a peer
\* response to classify, a message to write with a file destination whose
\* pattern is absent or made of at most MaxPieces pieces, or a stream of at
\* most MaxJunk bytes followed by  SB m EB CR  to feed to a new accumulator
InitCalls ==
    LET RECURSIVE junks(_)
        junks(n) ==
            IF n = 0 THEN {<<>>}
            ELSE junks(n - 1)
                 \cup {t \o <<b>> : t \in junks(n - 1),
                                      b \in {SB, EB, CR, 65, 195}}
        ResyncCalls ==
            {[fn |-> "resync", junk |-> j, m |-> m, rest |-> j \o Frame(m),
              acc |-> NewAcc, got |-> <<>>, cut |-> FALSE] :
                j \in junks(MaxJunk), m \in Chars}
        pieces == {Lit.a, Lit.slash, Lit.bslash, Lit.nul, Lit.lf, Lit.dotdot,
                   Lit.id_var, Lit.channel_var, Lit.timestamp_var,
                   Lit.date_var}
        RECURSIVE patterns(_)
        patterns(n) ==
            IF n = 0 THEN {<<>>}
            ELSE patterns(n - 1)
                 \cup {t \o q : t \in patterns(n - 1), q \in pieces}
        FileCalls ==
            {[fn |-> "file", has |-> has, pattern |-> pat, id |-> Lit.uuid,
              channel |-> ch, base |-> base, done |-> FALSE,
              filename |-> <<>>, result |-> [ok |-> FALSE, path |-> <<>>]] :
                has \in BOOLEAN, pat \in patterns(MaxPieces),
                ch \in {Lit.a, Lit.a \o Lit.slash \o Lit.a},
                base \in {Lit.out, Lit.up_out}}
    IN /\ InitProgram
       /\ call \in FeedCalls \cup AckCalls \cup SendCalls
                    \cup {c \in FileCalls : c.has \/ c.pattern = <<>>}
                    \cup ResyncCalls

\* one call of feed with the next n bytes of the stream; cut records that
\* some call ended between an EB and its CR
ApplyFeed ==
    /\ call.fn \in {"feed", "resync"}
    /\ \E n \in 1..Len(call.rest) :
          LET r == feed(call.acc, SubSeq(call.rest, 1, n)) IN
          call' = [call EXCEPT !.rest = SubSeq(@, n + 1, Len(@)),
                               !.acc = r.acc,
                               !.got = @ \o r.messages,
                               !.cut = @ \/ r.acc.state = "Complete"]
    /\ UNCHANGED <<channels, senders, inst, nInst, store, nMsgs, dedup,
                   chanStore, req, rtx, inj, rw, rm, nRetryCalls, shut,
                   boots, out, recov, hist, conn>>

\* generate_ack applied to the message made of the fields, joined with "|",
\* and of the PID segment after a carriage return, if there is one
ApplyGenerateAck ==
    /\ call.fn = "generate_ack"
    /\ call.result = <<>>
    /\ LET first == Join(call.fields, Lit.pipe)
           hl7 == IF call.more
                  THEN first \o <<CR>> \o Join(<<Lit.PID, Lit.M1>>, Lit.pipe)
                  ELSE first
       IN call' = [call EXCEPT !.result = generate_ack(hl7)]
    /\ UNCHANGED <<channels, senders, inst, nInst, store, nMsgs, dedup,
                   chanStore, req, rtx, inj, rw, rm, nRetryCalls, shut,
                   boots, out, recov, hist, conn>>

\* TcpSender::send reads the peer's response and classifies it
ApplySend ==
    /\ call.fn = "send"
    /\ ~call.done
    /\ LET msh == Join(<<Lit.MSH, Lit.enc, call.app, Lit.S1, Lit.LAB, Lit.H1,
                         Lit.now, <<>>, Lit.ACK, Lit.uuid, Lit.P, Lit.ver>>,
                       Lit.pipe)
           msa == Join(IF call.id THEN <<Lit.MSA, call.code, Lit.M1>>
                       ELSE <<Lit.MSA, call.code>>, Lit.pipe)
           response == IF call.ev = "data" THEN Frame(msh \o <<CR>> \o msa)
                       ELSE <<>>
       IN call' = [call EXCEPT !.done = TRUE,
                               !.result = TcpSenderSend(call.ev, response)]
    /\ UNCHANGED <<channels, senders, inst, nInst, store, nMsgs, dedup,
                   chanStore, req, rtx, inj, rw, rm, nRetryCalls, shut,
                   boots, out, recov, hist, conn>>

\* FileWriter::send up to the open of the file: build_filename, then
\* validate_path
ApplyFileSend ==
    /\ call.fn = "file"
    /\ ~call.done
    /\ LET filename == build_filename(call.has, call.pattern, call.id,
                                     call.channel)
       IN call' = [call EXCEPT !.done = TRUE, !.filename = filename,
                               !.result = validate_path(call.base, filename)]
    /\ UNCHANGED <<channels, senders, inst, nInst, store, nMsgs, dedup,
                   chanStore, req, rtx, inj, rw, rm, nRetryCalls, shut,
                   boots, out, recov, hist, conn>>

\* ------------------------------------------ the deduplication store in time
\* storage/deduplication.rs, engine/cleanup_worker.rs.  Time is counted in
\* hours; the processed_ids table is a set of rows, at most one for a pair
\* of channel_id and message_hash (UNIQUE(channel_id, message_hash)).
ttl_hours == 24
MaxHours == 25
MaxMarks == 3

\* SELECT id FROM processed_ids WHERE channel_id = ? AND message_hash = ?
\* AND expires_at > now
is_duplicate_at(table, channel_id, content, now) ==
    \E row \in table : /\ row.channel_id = channel_id
                       /\ row.message_hash = hash_content(content)
                       /\ row.expires_at > now

\* INSERT OR IGNORE INTO processed_ids (channel_id, message_hash, expires_at)
\* with expires_at = now + ttl_hours: ignored when the pair has a row
mark_processed(table, channel_id, content, now) ==
    IF \E row \in table : /\ row.channel_id = channel_id
                          /\ row.message_hash = hash_content(content)
    THEN table
    ELSE table \cup {[channel_id |-> channel_id,
                      message_hash |-> hash_content(content),
                      expires_at |-> now + ttl_hours]}

\* DELETE FROM processed_ids WHERE expires_at < now
cleanup_expired(table, now) == {row \in table : ~(row.expires_at < now)}

\* a new store: an empty table, no mark_processed call made yet
InitDedupStore ==
    /\ InitProgram
    /\ call = [fn |-> "dedup", now |-> 0, table |-> {}, marks |-> 0,
               marked |-> [p \in ChannelIds \X Bodies |-> -1]]

\* the processing loop's deduplication check on a message that is_duplicate
\* does not find: mark_processed returned Ok; marked records its time
ApplyMarkProcessed(c, content) ==
    /\ call.fn = "dedup"
    /\ call.marks < MaxMarks
    /\ ~is_duplicate_at(call.table, c, content, call.now)
    /\ call' = [call EXCEPT
                   !.table = mark_processed(@, c, content, call.now),
                   !.marked[<<c, content>>] = call.now,
                   !.marks = @ + 1]
    /\ UNCHANGED <<channels, senders, inst, nInst, store, nMsgs, dedup,
                   chanStore, req, rtx, inj, rw, rm, nRetryCalls, shut,
                   boots, out, recov, hist, conn>>

\* the cleanup worker's ticker fired: cleanup_expired
ApplyCleanupExpired ==
    /\ call.fn = "dedup"
    /\ cleanup_expired(call.table, call.now) # call.table
    /\ call' = [call EXCEPT !.table = cleanup_expired(@, call.now)]
    /\ UNCHANGED <<channels, senders, inst, nInst, store, nMsgs, dedup,
                   chanStore, req, rtx, inj, rw, rm, nRetryCalls, shut,
                   boots, out, recov, hist, conn>>

\* one hour passes
HourPasses ==
    /\ call.fn = "dedup"
    /\ call.now < MaxHours
    /\ call' = [call EXCEPT !.now = @ + 1]
    /\ UNCHANGED <<channels, senders, inst, nInst, store, nMsgs, dedup,
                   chanStore, req, rtx, inj, rw, rm, nRetryCalls, shut,
                   boots, out, recov, hist, conn>>

NextDedupStore ==
    \/ \E c \in ChannelIds, content \in Bodies : ApplyMarkProcessed(c, content)
    \/ ApplyCleanupExpired
    \/ HourPasses

SpecDedupStore == InitDedupStore /\ [][NextDedupStore]_vars

NextCalls ==
    \/ ApplyFeed
    \/ ApplyGenerateAck
    \/ ApplySend
    \/ ApplyFileSend

SpecCalls == InitCalls /\ [][NextCalls]_vars

\* C15: for texts m1, m2 without SB and EB, once the stream
\* SB m1 EB CR SB m2 EB CR has been fed whole to one accumulator, in calls
\* split anywhere, the messages returned over the calls are exactly m1 then
\* m2 and the accumulator is in WaitingStart with an empty buffer.
C15_SplitStreamYieldsBothMessages ==
    (call.fn = "feed" /\ call.rest = <<>>)
    => /\ call.got = <<call.m1, call.m2>>
       /\ call.acc = NewAcc

\* a stream fed in several calls, one of which ended between EB and CR,
\* whose messages differ and hold a carriage return and a two-byte character
C15_Witness ==
    /\ call.fn = "feed" /\ call.rest = <<>> /\ call.cut
    /\ call.m1 = <<CR, 65>> /\ call.m2 = <<195, 169>>
    /\ call.got = <<call.m1, call.m2>>

\* a Tcp source: one connection on a channel deployed once
NextTcp ==
    \/ \E c \in ChannelIds : Deploy(c, TcpChannel)
    \/ Deployment
    \/ \E k \in InstIds : ProcDupUpdate(k)
    \/ \E k \in InstIds : TcpAccept(k)
    \/ \E data \in TcpData : TcpRead(data)
    \/ TcpEnd
    \/ TcpSave(TRUE)
    \/ TcpSave(FALSE)
    \/ TcpAck(TRUE)
    \/ TcpAck(FALSE)
    \/ TcpSend

SpecTcp == Init /\ [][NextTcp]_vars

\* the processor chain: HTTP requests and injected messages on a channel
\* whose chain drops in a filter, or raises after a rewrite, or raises with
\* an error destination of a type other than File and Http, or passes to
\* two destinations; sends to a destination succeed or fail
NextChain ==
    \/ \E c \in ChannelIds,
          cfg \in {GateChannel, UpperRaiseChannel, RaiseTcpChannel,
                   FanOutChannel} :
          Deploy(c, cfg)
    \/ Deployment
    \/ \E k \in InstIds : ProcDest(k, FALSE)
    \/ \E k \in InstIds : ProcDupUpdate(k)
    \/ \E k \in InstIds : ProcFilterUpdate(k)
    \/ Failure
    \/ \E r \in ReqIds, k \in InstIds, b \in Bodies : HttpRequest(r, k, b)
    \/ \E r \in ReqIds : HttpResponse(r)
    \/ \E r \in ReqIds : HttpTimeout(r)
    \/ \E c \in ChannelIds, b \in Bodies : InjectMessage(c, b)

SpecChain == Init /\ [][NextChain]_vars

\* C12: when a filter evaluates to false for a message, the step that
\* handles the drop leaves the message's row FILTERED and its reply handle
\* resolved with Ok("Message Filtered"), the loop goes back to recv without
\* running anything else on the message, and no destination and no error
\* destination has been or is then invoked for it.
C12_FilterDropsMessage ==
    [][\A k \in InstIds :
          (inst[k].pc = "filter_update" /\ inst'[k].pc # "filter_update"
             /\ inst'[k].prc = "running")
          => LET m == inst[k].cur IN
             /\ store[m.id].status # "NONE" => store'[m.id].status = "FILTERED"
             /\ m.rtx # NoReq =>
                   /\ rtx'[m.rtx].st = "sent"
                   /\ rtx'[m.rtx].ok
                   /\ rtx'[m.rtx].text = "Message Filtered"
             /\ inst'[k].pc = "recv" /\ inst'[k].cur = NoMsg
             /\ out' = out
             /\ \A i \in DOMAIN out : out[i].id # m.id]_vars

\* a request dropped by the filter has been answered, nothing was delivered
C12_Witness ==
    \E r \in ReqIds :
       /\ req[r].pc = "done" /\ req[r].id \in MsgIds
       /\ store[req[r].id].status = "FILTERED"
       /\ rtx[r].st = "sent" /\ rtx[r].text = "Message Filtered"
       /\ out = <<>>

\* C13: when the chain fails with a non-filter error, the handling of the
\* failure ends with the message's row ERROR with the error text, with no
\* primary destination invoked for it, and, if the channel has an
\* error_destination of whatever type, with exactly one dispatch of the
\* message to it.
C13_ChainErrorGoesToErrorDestination ==
    [][\A k \in InstIds :
          (inst[k].pc \in {"set_error", "err_dest"} /\ inst'[k].pc = "recv"
             /\ inst'[k].prc = "running")
          => LET m == inst[k].cur
                 sends(kind) == {i \in DOMAIN out' :
                                   out'[i].id = m.id /\ out'[i].kind = kind}
             IN
             /\ store[m.id].status # "NONE" =>
                   /\ store'[m.id].status = "ERROR"
                   /\ store'[m.id].error_message = inst[k].err
             /\ sends("primary") = {}
             /\ inst[k].cfg.error_destination # "None" =>
                   Cardinality(sends("error")) = 1]_vars

\* C14: what the error destination receives for a failed message is the
\* payload as ingested (the content of the message's row), however many
\* processors rewrote the content before the failing one.
C14_ErrorDestinationGetsOriginalPayload ==
    \A i \in DOMAIN out :
       (out[i].kind = "error" /\ store[out[i].id].status # "NONE")
       => out[i].content = store[out[i].id].content

\* the processed_ids entries of channel c
DedupEntries(c) == {e \in dedup : e[1] = c}

\* C11: when start_channel(c) completes, no deduplication entry of c is
\* left, so that content processed on c before the (re)deploy is processed
\* as new after it.
C11_RedeployClearsDedup ==
    [][\A c \in ChannelIds :
          (hist'[c] # hist[c] /\ LastCall(hist'[c]) = "start")
          => DedupEntries(c)' = {}]_vars
\* C16: within one channel messages are processed one at a time in the
\* order of enqueue: a processor takes the message at the head of the queue,
\* and only when it has no message in hand; producers add at the tail; and
\* no two processors of the channel have a message in hand at once.
C16_OneAtATimeInEnqueueOrder ==
    [][\A k \in InstIds :
          /\ (inst'[k].cur # inst[k].cur /\ inst'[k].cur # NoMsg
                 /\ inst[k].pc = "recv")
             => /\ inst[k].cur = NoMsg
                /\ inst[k].queue # <<>>
                /\ inst'[k].cur = Head(inst[k].queue)
                /\ inst'[k].queue = Tail(inst[k].queue)
          /\ Len(inst'[k].queue) > Len(inst[k].queue)
             => SubSeq(inst'[k].queue, 1, Len(inst[k].queue)) = inst[k].queue
          /\ \A j \in InstIds \ {k} :
                (inst'[j].ch = inst'[k].ch /\ inst'[k].ch # "")
                => (inst'[j].cur = NoMsg \/ inst'[k].cur = NoMsg)]_vars

\* C17: with a MessageStore present, a message placed on a channel queue
\* has a row that was saved for it before: at the enqueue the row with the
\* message's id exists, is PENDING and holds the message's content.
C17_EnqueuedMessageWasPersisted ==
    [][\A k \in InstIds :
          Len(inst'[k].queue) > Len(inst[k].queue)
          => LET m == inst'[k].queue[Len(inst'[k].queue)] IN
             /\ store'[m.id].status = "PENDING"
             /\ store'[m.id].content = m.content]_vars

\* C19: the result of generate_ack is one well-formed MLLP frame; for a
\* message whose first segment is an MSH of at least 10 fields its MSA
\* segment is MSA|AA| followed by the message's MSH-10 and its MSH-3..MSH-6
\* are the message's MSH-5, MSH-6, MSH-3, MSH-4; for a message without MSH
\* or with an MSH of fewer than 10 fields it is the minimal frame
\* MSA|AA|Unknown|<time>.
C19_AckAnswersTheMessage ==
    (call.fn = "generate_ack" /\ call.result # <<>>)
    => LET res == call.result
           n == Len(res)
           inner == SubSeq(res, 2, n - 2)
           segs == split(inner, CR)
           f == call.fields
       IN /\ n >= 3 /\ res[1] = SB /\ res[n - 1] = EB /\ res[n] = CR
          /\ \A i \in DOMAIN inner : inner[i] \notin {SB, EB}
          /\ IF f[1] = Lit.MSH /\ Len(f) >= 10
             THEN /\ Len(segs) = 2
                  /\ segs[2] = Join(<<Lit.MSA, Lit.AA, f[10]>>, Lit.pipe)
                  /\ SubSeq(split(segs[1], Lit.pipe[1]), 3, 6)
                        = <<f[5], f[6], f[3], f[4]>>
             ELSE inner = Join(<<Lit.MSA, Lit.AA, Lit.Unknown, Lit.now>>,
                               Lit.pipe)

\* C20: the send of a Tcp destination succeeds when the MSA code of the
\* peer's response is AA or CA, fails with the NACK text when it is AE, CE,
\* AR or CR, and fails when no response arrives, whatever else the response
\* holds.
C20_SendFollowsMsaCode ==
    (call.fn = "send" /\ call.done)
    => IF call.ev # "data" THEN ~call.result.ok
       ELSE IF call.code \in {Lit.AA, Lit.CA} THEN call.result.ok
       ELSE /\ ~call.result.ok
            /\ call.result.err = "Received NACK/Reject from remote"

\* C18: when persisting a received frame fails, the Tcp source goes on to
\* send the ACK for that frame: whatever save_message returns, the handler's
\* next step for the frame is the write of the ACK.
C18_AckSentWhenPersistFails ==
    [][(conn.pc = "save" /\ conn' # conn) => conn'.pc = "ack"]_vars

\* C21 as stated: the result of build_filename holds no "/", no "\", no NUL
\* and no control character, and the path written to has no ".." component.
C21_BuildFilenameIsSafe ==
    (call.fn = "file" /\ call.done)
    => /\ \A i \in DOMAIN call.filename :
             /\ call.filename[i] \notin {47, 92, 0}
             /\ ~(call.filename[i] < 32 \/ call.filename[i] \in 127..159)
       /\ call.result.ok =>
             \A i \in DOMAIN call.result.path :
                call.result.path[i] # Lit.dotdot

\* C21, amended: the name that validate_path joins to the directory, which
\* is sanitize_filename of the result of build_filename, holds no "/", no
\* "\", no NUL and no control character; the path written to has no ".."
\* component and, unless that name is empty, "." or "..", ends with it.
C21_WrittenNameIsSanitized ==
    (call.fn = "file" /\ call.done)
    => LET name == sanitize_filename(call.filename)
           path == call.result.path
       IN /\ \A i \in DOMAIN name :
                /\ name[i] \notin {47, 92, 0}
                /\ ~(name[i] < 32 \/ name[i] \in 127..159)
          /\ call.result.ok =>
                /\ \A i \in DOMAIN path : path[i] # Lit.dotdot
                /\ name \notin {<<>>, <<46>>, Lit.dotdot}
                      => path # <<>> /\ path[Len(path)] = name

\* the pattern "/${channel}" with the channel name "a/a" was written, below
\* the directory "../out", under the name "aa"
C21_Witness ==
    /\ call.fn = "file" /\ call.done /\ call.result.ok
    /\ call.pattern = Lit.slash \o Lit.channel_var
    /\ call.channel = Lit.a \o Lit.slash \o Lit.a
    /\ call.base = Lit.up_out
    /\ call.filename = Lit.slash \o Lit.a \o Lit.slash \o Lit.a
    /\ call.result.path[Len(call.result.path)] = Lit.a \o Lit.a

C24_EveryDestinationAttemptedInOrder ==
    [][\A k \in InstIds :
          (inst[k].pc = "set_sent" /\ inst'[k].pc = "recv"
             /\ inst'[k].prc = "running")
          => LET m == inst[k].cur
                 sends == SelectSeq(out', LAMBDA d : d.id = m.id)
             IN
             /\ Len(sends) = Len(inst[k].cfg.destinations)
             /\ \A i \in DOMAIN sends :
                   sends[i].idx = i /\ sends[i].kind = "primary"
             /\ store[m.id].status # "NONE"
                   => store'[m.id].status = "SENT"
             /\ (m.rtx # NoReq /\ rtx[m.rtx].st = "open")
                   => /\ rtx'[m.rtx].st = "sent" /\ rtx'[m.rtx].ok
                      /\ rtx'[m.rtx].text = "Processed"]_vars

\* a request on the channel with two destinations: the send to the first
\* failed, the second was sent the message, the row is SENT and the reply
\* was Ok("Processed")
C24_Witness ==
    \E r \in ReqIds :
       /\ req[r].pc = "done" /\ req[r].id \in MsgIds
       /\ store[req[r].id].status = "SENT"
       /\ rtx[r].st = "sent" /\ rtx[r].ok /\ rtx[r].text = "Processed"
       /\ Len(out) = 2
       /\ out[1].id = req[r].id /\ out[1].idx = 1 /\ ~out[1].ok
       /\ out[2].id = req[r].id /\ out[2].idx = 2 /\ out[2].ok

\* C25: once a supervisor has ended after the shutdown signal, in a process
\* that still runs, its processor task is not running any more (it drained
\* the queue and ended, or was aborted at the end of the 5 s window) and
\* its listener task is not running either.
C25_NothingRunsAfterTheSupervisor ==
    \A k \in InstIds :
       (Alive /\ inst[k].sup = "ended" /\ inst[k].sig)
       => /\ inst[k].prc # "running"
          /\ inst[k].lst \notin {"spawned", "running"}

\* C26: a listener task that could not bind its port has ended, so that its
\* supervisor sees the exit and aborts the processor: no listener task of an
\* Http or Tcp source is left running without its port.
C26_ListenerWithoutPortHasEnded ==
    \A k \in InstIds :
       (inst[k].cfg.source \in {"Http", "Tcp"} /\ inst[k].lst = "running")
       => inst[k].srv

\* C27: on a Tcp connection the ACK of a frame is written when the save of
\* the frame has returned its row; the frame is enqueued when its ACK has
\* been written, as a message with the row's id; and the frame handled is
\* always the earliest received frame not handled yet, so that messages are
\* enqueued in the order of receipt, each with an id above the ids of the
\* messages enqueued before it.
C27_PersistThenAckThenEnqueue ==
    [][/\ (conn.pc # "none" /\ conn'.acks # conn.acks)
          => /\ conn.pc = "ack" /\ conn.id \in MsgIds
             /\ store[conn.id].status = "PENDING"
             /\ store[conn.id].content = Head(conn.msgs)
             /\ conn'.acks = Append(conn.acks, generate_ack(Head(conn.msgs)))
       /\ \A k \in InstIds :
             Len(inst'[k].queue) > Len(inst[k].queue)
             => /\ conn.k = k /\ conn.pc = "send"
                /\ conn.acks # <<>>
                /\ conn.acks[Len(conn.acks)] = generate_ack(Head(conn.msgs))
                /\ inst'[k].queue = Append(inst[k].queue,
                       [id |-> conn.id, content |-> Head(conn.msgs),
                        origin |-> "TCP", rtx |-> NoReq])
                /\ store[conn.id].content = Head(conn.msgs)
                /\ \A i \in DOMAIN inst[k].queue :
                      inst[k].queue[i].id < conn.id
                /\ inst[k].cur.id < conn.id
                /\ \A i \in DOMAIN out : out[i].id < conn.id
       /\ (conn.pc # "none" /\ conn'.msgs # conn.msgs)
          => \/ conn.pc = "read" /\ conn.msgs = <<>>
             \/ conn'.msgs = Tail(conn.msgs)
             \/ conn'.msgs = <<>>]_vars

\* two frames came in one read; both were saved, acknowledged, enqueued and
\* delivered, the first before the second
C27_Witness ==
    /\ conn.pc # "none"
    /\ Len(conn.acks) = 2
    /\ Len(out) = 2
    /\ out[1].id = 1 /\ out[1].content = <<65>>
    /\ out[2].id = 2 /\ out[2].content = <<65, 65>>

\* C28: when the retry worker updates a row, the row is in ERROR, is due
\* (its age is at least 2^retry_count minutes) and its channel has a
\* registered sender; the update raises the row's retry_count by exactly one
\* and sets it PROCESSING; the send that follows enqueues a message with the
\* row's id and content; and no other step of the worker changes a row or a
\* queue.
C28_RetryWorkerRetriesDueErrorRows ==
    [][/\ (rw.pc = "update" /\ rw'.pc # "update")
          => LET id == rw.rows[1].id IN
             /\ store[id].status = "ERROR"
             /\ Due(store[id])
             /\ senders[store[id].channel_id] # NoInst
             /\ store'[id].status = "PROCESSING"
             /\ store'[id].retry_count = store[id].retry_count + 1
       /\ (rw.pc = "send" /\ rw'.pc # "send")
          => LET id == rw.rows[1].id IN
             inst'[rw.k].queue =
                Append(inst[rw.k].queue,
                       [id |-> id, content |-> store[id].content,
                        origin |-> "retry_worker", rtx |-> NoReq])
       /\ (rw.pc = "sleep" /\ rw' # rw)
          => store' = store /\ inst' = inst]_vars

C30_AccumulatorResynchronises ==
    (call.fn = "resync" /\ call.rest = <<>>)
    => /\ call.got # <<>>
       /\ call.got[Len(call.got)] = call.m
       /\ call.acc = NewAcc
       /\ \A i \in 1..(Len(call.got) - 1) :
             /\ contains(call.junk, Frame(call.got[i]))
             /\ \A j \in DOMAIN call.got[i] : call.got[i][j] \notin {SB, EB}

\* a partial frame whose EB was followed by the SB of a well-formed frame:
\* the partial frame was dropped and the frame returned as it was sent
C30_Witness ==
    /\ call.fn = "resync" /\ call.rest = <<>>
    /\ call.junk = <<65, SB, 65, EB>>
    /\ call.m = <<195, 169>>
    /\ call.got = <<call.m>>

\* C31: once a stream has been fed whole to a new accumulator, the number of
\* messages returned is the number of delimited frames SB content EB CR of
\* the stream (content without SB and EB), whether or not the content is
\* valid UTF-8.
C31_EveryDelimitedFrameIsEmitted ==
    (call.fn = "resync" /\ call.rest = <<>>)
    => LET stream == call.junk \o Frame(call.m)
           frames == {i \in 2..(Len(stream) - 1) :
                        /\ stream[i] = EB /\ stream[i + 1] = CR
                        /\ \E j \in 1..(i - 1) :
                              /\ stream[j] = SB
                              /\ \A h \in (j + 1)..(i - 1) :
                                    stream[h] \notin {SB, EB}}
       IN Len(call.got) = Cardinality(frames)

\* C32: an instance whose supervisor was aborted by stop_channel or by a
\* start_channel of the same id has no listener task and no processor task
\* running and holds no port.
C32_AbortedInstanceIsStopped ==
    \A k \in InstIds :
       (Alive /\ inst[k].sup = "aborted")
       => /\ inst[k].lst \notin {"spawned", "running"}
          /\ inst[k].prc # "running"
          /\ ~inst[k].srv

\* C33: when no start_channel and no stop_channel call is in progress, the
\* sender map has an entry for an id exactly when the handle map has one,
\* both are of the same instance, and every supervisor that was spawned and
\* has neither ended nor been aborted is the one the handle map holds for
\* its id.
C33_RegistryConsistentAfterCalls ==
    (\A k \in InstIds : inst[k].mc \in {"none", "done"})
    => /\ \A c \in ChannelIds : senders[c] = channels[c]
       /\ \A k \in InstIds :
             inst[k].sup \in {"spawned", "running", "draining"}
             => channels[inst[k].ch] = k

\* C34: a message that the retry worker re-enqueued, or that retry_message
\* re-enqueued for a row it read in ERROR, and whose content no other row
\* holds, is not taken for a duplicate by the deduplication check: it goes
\* on to the processor chain.
C34_RetriedMessageRunsTheChainAgain ==
    [][\A k \in InstIds :
          (/\ inst[k].pc = "is_duplicate"
           /\ \/ inst[k].cur.origin = "retry_worker"
              \/ /\ inst[k].cur.origin = "RETRY_API"
                 /\ rm.id = inst[k].cur.id
                 /\ rm.rec.status = "ERROR"
           /\ \A m \in MsgIds \ {inst[k].cur.id} :
                 store[m].content # inst[k].cur.content)
          => inst'[k].pc # "dup_update"]_vars

\* C35: when a recovery task enqueues a message for a row, no message with
\* the row's id is in a channel queue or in the hands of a processor.
C35_RecoveryEnqueuesNoLiveMessage ==
    [][\A k \in InstIds :
          (/\ Len(inst'[k].queue) = Len(inst[k].queue) + 1
           /\ inst'[k].queue[Len(inst'[k].queue)].origin = "RECOVERY")
          => LET id == inst'[k].queue[Len(inst'[k].queue)].id
             IN  \A j \in InstIds :
                    /\ inst[j].cur.id # id
                    /\ \A i \in 1..Len(inst[j].queue) :
                          inst[j].queue[i].id # id]_vars

\* C36: once a supervisor has received the shutdown signal and aborted its
\* listener, and the sender map no longer holds the sender of its queue, no
\* Sender of the queue is left, so that the processor's recv() returns None
\* when the queue is empty and the processor task ends by itself.
C36_QueueClosesAfterShutdownSignal ==
    \A k \in InstIds :
       (/\ Alive
        /\ inst[k].sig
        /\ inst[k].sup \in {"draining", "ended"}
        /\ inst[k].lst \notin {"spawned", "running"}
        /\ senders[inst[k].ch] # k)
       => \/ ~SenderAlive(k)
          \/ inst[k].prc # "running"

\* C37: the retry worker's UPDATE never sets the retry_count of a row above
\* the max_retries of the row's channel.
C37_RetryWorkerStopsAtMaxRetries ==
    [][(rw.pc = "update" /\ rw'.pc = "send")
       => \A m \in MsgIds :
             (/\ store'[m].retry_count # store[m].retry_count
              /\ chanStore[store[m].channel_id] # <<>>)
             => store'[m].retry_count
                   <= chanStore[store[m].channel_id][1].max_retries]_vars

\* C38: when a retry_message call returns an error, the row it was called
\* for has the retry_count and the status that the call read at its
\* beginning.
C38_FailedRetryMessageLeavesRowUnchanged ==
    [][(/\ rm.pc # "idle"
        /\ rm'.pc = "idle"
        /\ rm'.result # "ok")
       => /\ store'[rm.id].retry_count = rm.rec.retry_count
          /\ store'[rm.id].status = rm.rec.status]_vars

\* C39: from a mark_processed call for a channel and a content that
\* returned Ok until ttl_hours later, is_duplicate returns true for that
\* channel and content.
C39_DuplicateDuringTheWholeTtlWindow ==
    call.fn = "dedup"
    => \A c \in ChannelIds, content \in Bodies :
          (/\ call.marked[<<c, content>>] >= 0
           /\ call.now < call.marked[<<c, content>>] + ttl_hours)
          => is_duplicate_at(call.table, c, content, call.now)

\* C40: a supervisor that has ended by itself is not the one whose id
\* get_active_channel_ids reports (the keys of the handle map), and the
\* sender of its queue is not in the sender map.
C40_EndedSupervisorIsNotActive ==
    \A k \in InstIds :
       (Alive /\ inst[k].sup = "ended")
       => /\ channels[inst[k].ch] # k
          /\ senders[inst[k].ch] # k

====
